---- MODULE Spec2Model ----
(***************************************************************************)
(* State-machine model of rs_coroutine_core (job.rs, scope.rs) and of the  *)
(* cold-flow operators of rs_flow (operators.rs).                           *)
(*                                                                         *)
(* Part I   jobs, cancel tokens, scopes, launched tasks, Deferred, join.   *)
(* Part II  FlowExt::take driven by a single upstream producer.            *)
(***************************************************************************)
EXTENDS Integers, Sequences, FiniteSets, TLC

(***************************************************************************)
(* Bounds of the model.                                                    *)
(***************************************************************************)
\* number of JobHandle objects that can exist (the root scope's job included)
MaxJobs == 2
\* number of cancel() calls (JobHandle::cancel and CoroutineScope::cancel)
MaxCancels == 2
\* longest upstream sequence fed to a flow operator
MaxLen == 3
\* largest count passed to take()
MaxCount == 3
\* number of distinct values an upstream can emit
NumValues == 2
\* number of values an upstream that never completes is followed for
MaxEmits == 13
\* number of source flows of one combining operator (merge's vector)
MaxSrcs == 2
\* longest source of a combining operator
MaxOpLen == 2
\* largest capacity passed to buffer()
MaxCap == 2
\* number of emit/set calls on one StateFlow
MaxWrites == 3
\* number of as_flow() calls on one StateFlow
MaxViews == 2
\* number of emit calls on one SharedFlow
MaxSends == 4
\* longest upstream of distinct_until_changed
MaxRunLen == 7
\* number of different values in the upstream of distinct_until_changed
NumKeys == 3
\* largest max_retries passed to retry()
MaxRetries == 2
\* number of collects running on one Flow value, and of tasks emitting
\* into one collector
MaxTasks == 2

\* mpsc::channel(16) of merge, zip, combine and sample
ChannelCapacity == 16
\* mpsc::channel::<Flow<U>>(1) of flat_map_latest
InnerFlowCapacity == 1

Ids == 1..MaxJobs
Values == 1..NumValues
Srcs == 1..MaxSrcs
Tasks == 1..MaxTasks
\* zip has one channel per side, every other operator one channel
Chans == {1, 2}

VARIABLES
    \* ---- Part I: rs_coroutine_core -------------------------------------
    kind,            \* what object i is: "none" (not created), "root",
                     \* "child" (plain JobHandle::new_child), "launch",
                     \* "async" (async_task), "with" (with_dispatcher)
    parent,          \* the job new_child() was called on (0: none). History
                     \* only: the code keeps no link between the two.
    tokenOf,         \* the scope whose cancel_token a launched task captured
    jobCancelled,    \* JobHandle.cancel_token.cancelled  (AtomicBool)
    scopeCancelled,  \* CoroutineScope.cancel_token.cancelled (AtomicBool)
    completedCalls,  \* notify_waiters() calls made on JobHandle.completed
    pc,              \* position of the task spawned for i
    polled,          \* the body future of task i has been polled
    ranAfter,        \* the body ran the code after its suspension point
    sent,            \* tx.send(res) happened on the oneshot of task i
    result,          \* what Deferred::await_result / rx.await returned
    cancelMid,       \* scope.cancel() calls between their two statements
    jobCancelCalls,  \* JobHandle::cancel calls made on job i (history)
    scopeCancelCalls,\* CoroutineScope::cancel calls completed on i (history)
    cancelledEarly,  \* job i or its issuing scope was cancelled before
                     \* task i sent its value (history)
    joinTarget,      \* the job the joiner called join() on (0: none)
    joinSeen,        \* notify_waiters count captured by notified()
    joinState,       \* "idle", "waiting", "returned"
    \* ---- Part II: FlowExt::take -----------------------------------------
    upstream,        \* the sequence the single upstream producer emits
    count,           \* the argument of take(count)
    emitted,         \* the AtomicUsize of one collect
    pos,             \* number of values the producer has emitted so far
    out,             \* values delivered to the downstream collector
    fpc,             \* "idle", "start", "collecting", "done"
    endless,         \* the upstream is repeat_flow(upstream[1]): it emits
                     \* that value again and again and never completes
    remaining,       \* lib.rs Flow::take: the closure's captured counter
    \* ---- Part III: operators that spawn tasks ---------------------------
    op,              \* the operator whose collect runs: "none", "merge",
                     \* "buffer", "zip", "combine", "flat_map_latest"
    tlen,            \* number of values source s emits before it ends
    ilen,            \* flat_map_latest: number of values of each inner flow
    tendless,        \* source s never ends (repeat_flow)
    tpanics,         \* source s panics after its values instead of ending
    tpos,            \* number of values source s has emitted so far
    tpc,             \* position of the task spawned for source s
    chan,            \* contents of the mpsc channels; the item <<s, i>> is
                     \* the i-th value of source s
    cap,             \* capacity the channels were created with
    latest,          \* combine: latest1 / latest2 (0: None, i: i-th value)
    held,            \* a value read and kept across an await (0: None)
    cpc,             \* position of the collect future itself
    cout,            \* what reached the downstream collector
    due,             \* combine: for every value produced while the other
                     \* side already had one, the two latest values at
                     \* that moment (history)
    outcome,         \* how the collect ended: "none", "returned",
                     \* "panicked"
    \* ---- Part IV: StateFlow (hot_flow.rs) --------------------------------
    sval,            \* the value the watch channel holds (0: no StateFlow)
    sver,            \* the watch channel's version
    rxcount,         \* number of live watch::Receivers
    vstate,          \* the Flow made by as_flow(): "none", "live", "dropped"
    views,           \* number of as_flow() calls so far
    vsnap,           \* the value held when as_flow() was called (history)
    hpc,             \* the collection of that Flow: "none", "waiting",
                     \* "stopped"
    cver,            \* the version the collection's Receiver has seen
    hout,            \* what the collection's collector received
    atStart,         \* the value held when the collection started (history)
    lastEmit,        \* argument of the latest emit/set call (0: none yet)
    writes,          \* number of emit/set calls so far
    sidx,            \* which emit/set call wrote the value held (0: the
                     \* initial value) (history)
    hidx,            \* for each value the collection received, which call
                     \* wrote it (history)
    \* ---- Part V: SharedFlow (hot_flow.rs) --------------------------------
    bcap,            \* length of the broadcast channel's ring buffer
    bsent,           \* number of emit calls so far; the k-th call emits
                     \* the value k
    blog,            \* the values the channel accepted, oldest first; a
                     \* Receiver's position counts the ones behind it
    bclosed,         \* the SharedFlow, and its Sender, has been dropped
    bview,           \* the Flow made by as_flow(): "none", "live", "dropped"
    bviewpos,        \* position of the Receiver held by that Flow
    bpc,             \* the collection of that Flow: "none", "running",
                     \* "ended", "dropped"
    bpos,            \* position of the collection's Receiver
    bstart,          \* number of emit calls made before the collection
                     \* started (history)
    bout,            \* what the collection's collector received
    \* ---- Part VI: sequential operators and terminal consumers ----------
    qop,             \* the operator whose collect runs ("none": none)
    qin,             \* the values the upstream emits (per attempt)
    qendless,        \* the upstream never completes: it goes on emitting
                     \* the values of qin again and again
    qfails,          \* number of leading attempts in which the upstream
                     \* panics after its values instead of completing
    qdpanic,         \* the downstream collector panics on the k-th value
                     \* it is given (0: never)
    qpayload,        \* what the upstream's panic carries: "str", "String"
                     \* or "other" ("none": the upstream never panics)
    qarg,            \* the operator's numeric argument (retry's
                     \* max_retries, length of flat_map's inner flows,
                     \* number of values catch_panic's handler emits)
    qpos,            \* number of upstream values handled in this attempt
    qinner,          \* flat_map: number of values taken from the inner flow
    qout,            \* what reached the downstream collector
    qcell,           \* the operator's Option cell: result, acc, last
                     \* (0: None)
    qcount,          \* the operator's counter: count, attempts
    qflag,           \* the operator's flag: found, done; for catch_panic,
                     \* that the upstream has panicked (history)
    qpc,             \* position of the collect: "none", "collecting",
                     \* "inner", "handler", "done", "panicked"
    qres,            \* what a terminal consumer returned: <<kind, value>>
    qevals,          \* number of calls of the predicate (history)
    qcalls,          \* number of panics caught: calls of catch_panic's
                     \* handler, failed attempts of retry (history)
    \* ---- Part VII: several collects, several emitters ------------------
    mop,             \* the stateful operator collected ("none": none)
    msrc,            \* the values the upstream emits in one collect
    marg,            \* the operator's argument: count, or the value the
                     \* predicate of take_while rejects
    mcell,           \* the state cells the closures work on: emitted,
                     \* dropped, done (0/1), last (0: None); one per index
    mseen,           \* per task: the state cell's value the closure got
                     \* hold of (prev_emitted)
    mpos,            \* per task: number of upstream values it has emitted
    mout,            \* per collect: what its collector received
    mpc              \* per task: "none", "calling" (between two closure
                     \* calls), "counted" (after fetch_add), "done"

jobVars == <<kind, parent, tokenOf, jobCancelled, scopeCancelled,
             completedCalls, pc, polled, ranAfter, sent, result, cancelMid,
             jobCancelCalls, scopeCancelCalls, cancelledEarly,
             joinTarget, joinSeen, joinState>>
takeVars == <<upstream, count, emitted, pos, out, fpc, endless, remaining>>
opVars == <<op, tlen, ilen, tendless, tpanics, tpos, tpc, chan, cap, latest, held,
            cpc, cout, due, outcome>>
hotVars == <<sval, sver, rxcount, vstate, views, vsnap, hpc, cver, hout,
             atStart, lastEmit, writes, sidx, hidx>>
sharedVars == <<bcap, bsent, blog, bclosed, bview, bviewpos, bpc, bpos,
                bstart, bout>>
seqVars == <<qop, qin, qendless, qfails, qdpanic, qpayload, qarg, qpos, qinner, qout,
             qcell, qcount, qflag, qpc, qres, qevals, qcalls>>
manyVars == <<mop, msrc, marg, mcell, mseen, mpos, mout, mpc>>
vars == <<jobVars, takeVars, opVars, hotVars, sharedVars, seqVars, manyVars>>

(***************************************************************************)
(* Part I.  job.rs                                                         *)
(***************************************************************************)

\* CancelToken::new: a fresh flag, not cancelled
CancelToken_new == FALSE

\* CancelToken::child: "Self::new()", whatever the parent's flag is
CancelToken_child(parentFlag) == CancelToken_new

\* a cancel that flips the flag instead of setting it
CancelToken_cancel_toggle(flag) == ~flag

\* CancelToken::cancel: cancelled.store(true). notify_waiters() on the
\* token's Notify wakes the callers of CancelToken::cancelled(); nothing in
\* the repository calls it, so no waiter is ever registered there.
CancelToken_cancel(flag) == TRUE

\* CancelToken::is_cancelled / JobHandle::is_cancelled
is_cancelled(flags, i) == flags[i]

\* objects that exist
Created == {i \in Ids : kind[i] # "none"}
\* objects that are scopes (own a cancel_token of their own)
Scopes == {i \in Ids : kind[i] \in {"root", "async", "with"}}
\* the next unused object
Fresh == IF Created = Ids THEN 0 ELSE CHOOSE i \in Ids \ Created :
                                        \A k \in Ids \ Created : i <= k

\* what a step of Part I leaves alone outside Part I
JobFrame == UNCHANGED <<takeVars, opVars, hotVars, sharedVars, seqVars, manyVars>>

RECURSIVE Descendant(_, _)
\* k was created from j with new_child(), directly or transitively
Descendant(k, j) ==
    /\ k \in Ids
    /\ parent[k] # 0
    /\ (parent[k] = j \/ Descendant(parent[k], j))

RECURSIVE SumUpTo(_, _)
\* f[1] + ... + f[n]
SumUpTo(f, n) == IF n = 0 THEN 0 ELSE f[n] + SumUpTo(f, n - 1)

\* the callers of the model make at most MaxCancels calls of cancel()
CancelsLeft ==
    SumUpTo(jobCancelCalls, MaxJobs) + SumUpTo(cancelMid, MaxJobs)
        < MaxCancels

JobIdle ==
    /\ kind = [i \in Ids |-> "none"]
    /\ parent = [i \in Ids |-> 0]
    /\ tokenOf = [i \in Ids |-> 0]
    /\ jobCancelled = [i \in Ids |-> FALSE]
    /\ scopeCancelled = [i \in Ids |-> FALSE]
    /\ completedCalls = [i \in Ids |-> 0]
    /\ pc = [i \in Ids |-> "none"]
    /\ polled = [i \in Ids |-> FALSE]
    /\ ranAfter = [i \in Ids |-> FALSE]
    /\ sent = [i \in Ids |-> FALSE]
    /\ result = [i \in Ids |-> "none"]
    /\ cancelMid = [i \in Ids |-> 0]
    /\ jobCancelCalls = [i \in Ids |-> 0]
    /\ scopeCancelCalls = [i \in Ids |-> 0]
    /\ cancelledEarly = [i \in Ids |-> FALSE]
    /\ joinTarget = 0
    /\ joinSeen = 0
    /\ joinState = "idle"

TakeIdle ==
    /\ upstream = <<>>
    /\ count = 0
    /\ emitted = 0
    /\ pos = 0
    /\ out = <<>>
    /\ fpc = "idle"
    /\ endless = FALSE
    /\ remaining = 0

\* no collect of Part VII is running
ManyIdle ==
    /\ mop = "none"
    /\ msrc = <<>>
    /\ marg = 0
    /\ mcell = [k \in Tasks |-> 0]
    /\ mseen = [k \in Tasks |-> 0]
    /\ mpos = [k \in Tasks |-> 0]
    /\ mout = [k \in Tasks |-> <<>>]
    /\ mpc = [k \in Tasks |-> "none"]

\* no sequential operator or terminal consumer is running
SeqIdle ==
    /\ qop = "none"
    /\ qin = <<>>
    /\ qendless = FALSE
    /\ qfails = 0
    /\ qdpanic = 0
    /\ qpayload = "none"
    /\ qarg = 0
    /\ qpos = 0
    /\ qinner = 0
    /\ qout = <<>>
    /\ qcell = 0
    /\ qcount = 0
    /\ qflag = FALSE
    /\ qpc = "none"
    /\ qres = <<"none", 0>>
    /\ qevals = 0
    /\ qcalls = 0

\* no SharedFlow has been made
SharedIdle ==
    /\ bcap = 0
    /\ bsent = 0
    /\ blog = <<>>
    /\ bclosed = FALSE
    /\ bview = "none"
    /\ bviewpos = 0
    /\ bpc = "none"
    /\ bpos = 0
    /\ bstart = 0
    /\ bout = <<>>

\* no StateFlow has been made
HotIdle ==
    /\ sval = 0
    /\ sver = 0
    /\ rxcount = 0
    /\ vstate = "none"
    /\ views = 0
    /\ vsnap = 0
    /\ hpc = "none"
    /\ cver = 0
    /\ hout = <<>>
    /\ atStart = 0
    /\ lastEmit = 0
    /\ writes = 0
    /\ sidx = 0
    /\ hidx = <<>>

OpIdle ==
    /\ op = "none"
    /\ tlen = [s \in Srcs |-> 0]
    /\ ilen = 0
    /\ tendless = [s \in Srcs |-> FALSE]
    /\ tpanics = [s \in Srcs |-> FALSE]
    /\ tpos = [s \in Srcs |-> 0]
    /\ tpc = [s \in Srcs |-> "none"]
    /\ chan = [c \in Chans |-> <<>>]
    /\ cap = 0
    /\ latest = [c \in Chans |-> 0]
    /\ held = [c \in Chans |-> 0]
    /\ cpc = "none"
    /\ cout = <<>>
    /\ due = <<>>
    /\ outcome = "none"

\* CoroutineScope::new: object 1 is the root scope, with JobHandle::new()
\* and CancelToken::new()
JobInit ==
    /\ kind = [i \in Ids |-> IF i = 1 THEN "root" ELSE "none"]
    /\ parent = [i \in Ids |-> 0]
    /\ tokenOf = [i \in Ids |-> 0]
    /\ jobCancelled = [i \in Ids |-> CancelToken_new]
    /\ scopeCancelled = [i \in Ids |-> CancelToken_new]
    /\ completedCalls = [i \in Ids |-> 0]
    /\ pc = [i \in Ids |-> "none"]
    /\ polled = [i \in Ids |-> FALSE]
    /\ ranAfter = [i \in Ids |-> FALSE]
    /\ sent = [i \in Ids |-> FALSE]
    /\ result = [i \in Ids |-> "none"]
    /\ cancelMid = [i \in Ids |-> 0]
    /\ jobCancelCalls = [i \in Ids |-> 0]
    /\ scopeCancelCalls = [i \in Ids |-> 0]
    /\ cancelledEarly = [i \in Ids |-> FALSE]
    /\ joinTarget = 0
    /\ joinSeen = 0
    /\ joinState = "idle"

\* JobHandle::new_child on job j: a job with cancel_token.child() and a new
\* Notify.  k is the object that becomes the child, knd what it is used for.
JobHandle_new_child(j, k, knd) ==
    /\ kind' = [kind EXCEPT ![k] = knd]
    /\ parent' = [parent EXCEPT ![k] = j]
    /\ jobCancelled' = [jobCancelled EXCEPT
                            ![k] = CancelToken_child(jobCancelled[j])]
    /\ completedCalls' = [completedCalls EXCEPT ![k] = 0]

\* a caller holding JobHandle j calls j.new_child()
new_child(j) ==
    /\ j \in Created
    /\ Fresh # 0
    /\ JobHandle_new_child(j, Fresh, "child")
    /\ JobFrame
    /\ UNCHANGED <<tokenOf, scopeCancelled, pc, polled, ranAfter, sent,
                   result, cancelMid, jobCancelCalls, scopeCancelCalls,
                   cancelledEarly, joinTarget, joinSeen, joinState>>

\* JobHandle::cancel on job j: cancel_token.cancel()
JobHandle_cancel(j) ==
    /\ jobCancelled' = [jobCancelled EXCEPT
                            ![j] = CancelToken_cancel(jobCancelled[j])]
    /\ jobCancelCalls' = [jobCancelCalls EXCEPT ![j] = @ + 1]

\* a caller holding JobHandle j (also Deferred::job()) calls j.cancel()
cancel_job(j) ==
    /\ j \in Created
    /\ CancelsLeft
    /\ JobHandle_cancel(j)
    /\ cancelledEarly' = [cancelledEarly EXCEPT
            ![j] = @ \/ (kind[j] \in {"async", "with"} /\ ~sent[j])]
    /\ JobFrame
    /\ UNCHANGED <<kind, parent, tokenOf, scopeCancelled, completedCalls, pc,
                   polled, ranAfter, sent, result, cancelMid,
                   scopeCancelCalls, joinTarget, joinSeen, joinState>>

(***************************************************************************)
(* scope.rs                                                                *)
(***************************************************************************)

\* a pre-flight check that lets the body run whatever the token says
launch_preflight_ignored(flag) == TRUE

\* CoroutineScope::launch, "if !cancel_token.is_cancelled()": the body is
\* awaited only when the captured token is not cancelled
launch_preflight(flag) == ~flag

\* CoroutineScope::launch on scope s: job = self.job.new_child(),
\* cancel_token = self.cancel_token.clone() (the scope's own token), and the
\* wrapper is handed to dispatcher.spawn
launch(s) ==
    /\ s \in Scopes
    /\ Fresh # 0
    /\ JobHandle_new_child(s, Fresh, "launch")
    /\ tokenOf' = [tokenOf EXCEPT ![Fresh] = s]
    /\ pc' = [pc EXCEPT ![Fresh] = "spawned"]
    /\ JobFrame
    /\ UNCHANGED <<scopeCancelled, polled, ranAfter, sent, result, cancelMid,
                   jobCancelCalls, scopeCancelCalls, cancelledEarly,
                   joinTarget, joinSeen, joinState>>

\* CoroutineScope::async_task / with_dispatcher on scope s: a child scope
\* {job: self.job.new_child(), cancel_token: self.cancel_token.child()} and a
\* oneshot channel; the task "tx.send(fut.await)" is spawned without any
\* cancellation check.  with_dispatcher awaits rx at once, async_task returns
\* Deferred {rx, job}.
async_task(s, knd) ==
    /\ s \in Scopes
    /\ Fresh # 0
    /\ JobHandle_new_child(s, Fresh, knd)
    /\ scopeCancelled' = [scopeCancelled EXCEPT
                            ![Fresh] = CancelToken_child(scopeCancelled[s])]
    /\ tokenOf' = [tokenOf EXCEPT ![Fresh] = Fresh]
    /\ pc' = [pc EXCEPT ![Fresh] = "running"]
    /\ JobFrame
    /\ UNCHANGED <<polled, ranAfter, sent, result, cancelMid, jobCancelCalls,
                   scopeCancelCalls, cancelledEarly, joinTarget, joinSeen,
                   joinState>>

\* the wrapper of a launched task is polled for the first time and tests the
\* captured token
task_preflight(i) ==
    /\ kind[i] = "launch"
    /\ pc[i] = "spawned"
    /\ pc' = [pc EXCEPT ![i] =
                IF launch_preflight(is_cancelled(scopeCancelled, tokenOf[i]))
                THEN "running" ELSE "finished"]
    /\ JobFrame
    /\ UNCHANGED <<kind, parent, tokenOf, jobCancelled, scopeCancelled,
                   completedCalls, polled, ranAfter, sent, result, cancelMid,
                   jobCancelCalls, scopeCancelCalls, cancelledEarly,
                   joinTarget, joinSeen, joinState>>

\* fut.await, first poll: the body runs up to its first suspension point
\* (suspends = TRUE) or to its end
task_poll_body(i, suspends) ==
    /\ pc[i] = "running"
    /\ polled' = [polled EXCEPT ![i] = TRUE]
    /\ pc' = [pc EXCEPT ![i] = IF suspends THEN "suspended" ELSE "finished"]
    /\ JobFrame
    /\ UNCHANGED <<kind, parent, tokenOf, jobCancelled, scopeCancelled,
                   completedCalls, ranAfter, sent, result, cancelMid,
                   jobCancelCalls, scopeCancelCalls, cancelledEarly,
                   joinTarget, joinSeen, joinState>>

\* fut.await, the body is woken at its suspension point and runs to its end;
\* neither wrapper looks at a token here
task_resume(i) ==
    /\ pc[i] = "suspended"
    /\ ranAfter' = [ranAfter EXCEPT ![i] = TRUE]
    /\ pc' = [pc EXCEPT ![i] = "finished"]
    /\ JobFrame
    /\ UNCHANGED <<kind, parent, tokenOf, jobCancelled, scopeCancelled,
                   completedCalls, polled, sent, result, cancelMid,
                   jobCancelCalls, scopeCancelCalls, cancelledEarly,
                   joinTarget, joinSeen, joinState>>

\* JobHandle::complete: completed.notify_waiters(); no permit is stored
JobHandle_complete(i) ==
    completedCalls' = [completedCalls EXCEPT ![i] = @ + 1]

\* launch's wrapper: job_clone.complete()
task_complete(i) ==
    /\ kind[i] = "launch"
    /\ pc[i] = "finished"
    /\ JobHandle_complete(i)
    /\ pc' = [pc EXCEPT ![i] = "done"]
    /\ JobFrame
    /\ UNCHANGED <<kind, parent, tokenOf, jobCancelled, scopeCancelled,
                   polled, ranAfter, sent, result, cancelMid, jobCancelCalls,
                   scopeCancelCalls, cancelledEarly, joinTarget, joinSeen,
                   joinState>>

\* async_task's / with_dispatcher's wrapper: let _ = tx.send(res)
task_send(i) ==
    /\ kind[i] \in {"async", "with"}
    /\ pc[i] = "finished"
    /\ sent' = [sent EXCEPT ![i] = TRUE]
    /\ pc' = [pc EXCEPT ![i] = "done"]
    /\ JobFrame
    /\ UNCHANGED <<kind, parent, tokenOf, jobCancelled, scopeCancelled,
                   completedCalls, polled, ranAfter, result, cancelMid,
                   jobCancelCalls, scopeCancelCalls, cancelledEarly,
                   joinTarget, joinSeen, joinState>>

\* Deferred::await_result / with_dispatcher's rx.await: resolves with the
\* sent value once there is one; the code has no other outcome to give
Deferred_await_result(isSent) == IF isSent THEN "value" ELSE "none"

await_result(i) ==
    /\ kind[i] \in {"async", "with"}
    /\ result[i] = "none"
    /\ sent[i]
    /\ result' = [result EXCEPT ![i] = Deferred_await_result(sent[i])]
    /\ JobFrame
    /\ UNCHANGED <<kind, parent, tokenOf, jobCancelled, scopeCancelled,
                   completedCalls, pc, polled, ranAfter, sent, cancelMid,
                   jobCancelCalls, scopeCancelCalls, cancelledEarly,
                   joinTarget, joinSeen, joinState>>

\* CoroutineScope::cancel on scope s, first statement:
\* self.cancel_token.cancel()
scope_cancel_token(s) ==
    /\ s \in Scopes
    /\ CancelsLeft
    /\ scopeCancelled' = [scopeCancelled EXCEPT
                            ![s] = CancelToken_cancel(scopeCancelled[s])]
    /\ cancelMid' = [cancelMid EXCEPT ![s] = @ + 1]
    /\ JobFrame
    /\ UNCHANGED <<kind, parent, tokenOf, jobCancelled, completedCalls, pc,
                   polled, ranAfter, sent, result, jobCancelCalls,
                   scopeCancelCalls, cancelledEarly, joinTarget, joinSeen,
                   joinState>>

\* CoroutineScope::cancel on scope s, second statement: self.job.cancel();
\* the call returns
scope_cancel_job(s) ==
    /\ cancelMid[s] > 0
    /\ cancelMid' = [cancelMid EXCEPT ![s] = @ - 1]
    /\ JobHandle_cancel(s)
    /\ scopeCancelCalls' = [scopeCancelCalls EXCEPT ![s] = @ + 1]
    /\ cancelledEarly' = [i \in Ids |->
            cancelledEarly[i]
            \/ (kind[i] \in {"async", "with"} /\ ~sent[i]
                /\ (i = s \/ parent[i] = s))]
    /\ JobFrame
    /\ UNCHANGED <<kind, parent, tokenOf, scopeCancelled, completedCalls, pc,
                   polled, ranAfter, sent, result, joinTarget, joinSeen,
                   joinState>>

\* JobHandle::join, first poll: completed.notified() is created; it sees the
\* notify_waiters() calls made from now on
join_start(j) ==
    /\ j \in Created
    /\ joinState = "idle"
    /\ joinTarget' = j
    /\ joinSeen' = completedCalls[j]
    /\ joinState' = "waiting"
    /\ JobFrame
    /\ UNCHANGED <<kind, parent, tokenOf, jobCancelled, scopeCancelled,
                   completedCalls, pc, polled, ranAfter, sent, result,
                   cancelMid, jobCancelCalls, scopeCancelCalls,
                   cancelledEarly>>

\* the Notified future of a join() is woken by a notify_waiters() call made
\* after it was created
Notified_ready(calls, seen) == calls > seen

\* JobHandle::join returns
join_return ==
    /\ joinState = "waiting"
    /\ Notified_ready(completedCalls[joinTarget], joinSeen)
    /\ joinState' = "returned"
    /\ JobFrame
    /\ UNCHANGED <<kind, parent, tokenOf, jobCancelled, scopeCancelled,
                   completedCalls, pc, polled, ranAfter, sent, result,
                   cancelMid, jobCancelCalls, scopeCancelCalls,
                   cancelledEarly, joinTarget, joinSeen>>

Init == JobInit /\ TakeIdle /\ OpIdle /\ HotIdle /\ SharedIdle /\ SeqIdle /\ ManyIdle

Next ==
    \/ \E j \in Ids : new_child(j)
    \/ \E j \in Ids : cancel_job(j)
    \/ \E s \in Ids : launch(s)
    \/ \E s \in Ids, knd \in {"async", "with"} : async_task(s, knd)
    \/ \E i \in Ids : task_preflight(i)
    \/ \E i \in Ids, suspends \in BOOLEAN : task_poll_body(i, suspends)
    \/ \E i \in Ids : task_resume(i)
    \/ \E i \in Ids : task_complete(i)
    \/ \E i \in Ids : task_send(i)
    \/ \E i \in Ids : await_result(i)
    \/ \E s \in Ids : scope_cancel_token(s)
    \/ \E s \in Ids : scope_cancel_job(s)
    \/ \E j \in Ids : join_start(j)
    \/ join_return

Spec == Init /\ [][Next]_vars

\* the dispatcher runs every spawned task to its end, a cancel() that was
\* called runs its second statement, and a join() that was woken returns
JobFairness ==
    /\ \A i \in Ids : WF_vars(task_preflight(i))
    /\ \A i \in Ids : WF_vars(\E b \in BOOLEAN : task_poll_body(i, b))
    /\ \A i \in Ids : WF_vars(task_resume(i))
    /\ \A i \in Ids : WF_vars(task_complete(i))
    /\ \A i \in Ids : WF_vars(task_send(i))
    /\ \A s \in Ids : WF_vars(scope_cancel_job(s))
    /\ WF_vars(join_return)

FairSpec == Init /\ [][Next]_vars /\ JobFairness

\* a program that only launches tasks on its scopes, cancels scopes and
\* joins the returned handles
LaunchNext ==
    \/ \E s \in Ids : launch(s)
    \/ \E i \in Ids : task_preflight(i)
    \/ \E i \in Ids, suspends \in BOOLEAN : task_poll_body(i, suspends)
    \/ \E i \in Ids : task_resume(i)
    \/ \E i \in Ids : task_complete(i)
    \/ \E s \in Ids : scope_cancel_token(s)
    \/ \E s \in Ids : scope_cancel_job(s)
    \/ \E j \in Ids : join_start(j)
    \/ join_return

LaunchSpec == Init /\ [][LaunchNext]_vars /\ JobFairness

(***************************************************************************)
(* Claims about jobs and scopes.                                           *)
(***************************************************************************)

\* C1: when cancel() is called on a job, is_cancelled() is true afterwards on
\* every job created from it with new_child(), directly or transitively.
C1_CancelCascades ==
    [][\A j \in Ids : jobCancelCalls'[j] > jobCancelCalls[j] =>
          \A k \in Ids : (kind[k] # "none" /\ Descendant(k, j)) =>
                is_cancelled(jobCancelled', k)]_vars

\* C2: a job created with new_child() from a job that is already cancelled
\* reports is_cancelled() = true as soon as it exists.
C2_ChildOfCancelledIsCancelled ==
    [][\A k \in Ids : (kind[k] = "none" /\ kind'[k] # "none"
                         /\ is_cancelled(jobCancelled, parent'[k])) =>
            is_cancelled(jobCancelled', k)]_vars

\* a launched task stands before its pre-flight check and a scope.cancel()
\* on the launching scope has already returned
CancelBeforePreflight(i) ==
    /\ kind[i] = "launch"
    /\ pc[i] = "spawned"
    /\ scopeCancelCalls[tokenOf[i]] > 0

\* C3: if scope.cancel() has completed before a launched task makes its
\* pre-flight check, the body is never polled, and complete() is called on
\* the returned handle all the same.
C3_CancelBeforeStartSkipsBody ==
    \A i \in Ids :
        /\ [](CancelBeforePreflight(i) => [](~polled[i] /\ ~ranAfter[i]))
        /\ (CancelBeforePreflight(i) ~> (pc[i] = "done"
                                          /\ completedCalls[i] > 0))

\* C3 witness: a task whose scope was cancelled before the check has finished
\* with its body unpolled and its completion signalled
C3_Witness ==
    \E i \in Ids : /\ kind[i] = "launch"
                   /\ pc[i] = "done"
                   /\ scopeCancelCalls[tokenOf[i]] > 0
                   /\ ~polled[i]
                   /\ completedCalls[i] > 0

\* C4 (safety half): once scope.cancel() has returned, a launched body that
\* is suspended at an await point does not run the code after it.
C4_CancelStopsSuspendedBody ==
    [][\A i \in Ids : (kind[i] = "launch" /\ pc[i] = "suspended"
                         /\ scopeCancelCalls[tokenOf[i]] > 0) =>
            ~ranAfter'[i]]_vars

\* C5: when scope.cancel() returns, the job of every Deferred issued by that
\* scope and the child scope installed for its task report
\* is_cancelled() = true.
C5_AsyncTaskIsChild ==
    [][\A s \in Ids : scopeCancelCalls'[s] > scopeCancelCalls[s] =>
          \A i \in Ids : (kind[i] \in {"async", "with"} /\ parent[i] = s) =>
                /\ is_cancelled(jobCancelled', i)
                /\ is_cancelled(scopeCancelled', i)]_vars

\* C6: a join() on a launched job returns once the task's wrapper has called
\* complete(), also when complete() ran before the join() started to wait.
C6_JoinReturnsAfterComplete ==
    \A j \in Ids :
        (joinState = "waiting" /\ joinTarget = j /\ kind[j] = "launch"
            /\ completedCalls[j] > 0)
        ~> (joinState = "returned")

\* C7: a join() waiting on a job returns after cancel() was called on that
\* job, even if complete() is never called.
C7_JoinReturnsAfterCancel ==
    \A j \in Ids :
        (joinState = "waiting" /\ joinTarget = j /\ jobCancelCalls[j] > 0)
        ~> (joinState = "returned")

\* C8: cancel() is idempotent: after any cancel() the flag is true, a second
\* cancel() on the same job or scope changes no flag and wakes nobody, and a
\* flag that is true never becomes false again.
C8_CancelIdempotent ==
    [][\A j \in Ids :
          /\ is_cancelled(jobCancelled, j) => is_cancelled(jobCancelled', j)
          /\ is_cancelled(scopeCancelled, j)
                => is_cancelled(scopeCancelled', j)
          /\ jobCancelCalls'[j] > jobCancelCalls[j]
                => is_cancelled(jobCancelled', j)
          /\ cancelMid'[j] > cancelMid[j]
                => is_cancelled(scopeCancelled', j)
          /\ (jobCancelCalls'[j] > jobCancelCalls[j] /\ jobCancelCalls[j] > 0)
                => /\ jobCancelled' = jobCancelled
                   /\ completedCalls' = completedCalls
                   /\ joinState' = joinState
          /\ (cancelMid'[j] > cancelMid[j]
                /\ cancelMid[j] + scopeCancelCalls[j] > 0)
                => scopeCancelled' = scopeCancelled]_vars

\* C8 witness: cancel() was called twice on one job, which is cancelled
C8_Witness ==
    \E j \in Ids : jobCancelCalls[j] >= 2 /\ is_cancelled(jobCancelled, j)

\* C9: awaiting a Deferred whose job or issuing scope was cancelled before
\* the task sent its value never yields the task's value.
C9_AwaitAfterCancelIsNotValue ==
    \A i \in Ids : cancelledEarly[i] => result[i] # "value"

(***************************************************************************)
(* Part II.  operators.rs, FlowExt::take                                   *)
(*                                                                         *)
(* One collect of upstream.take(count): the upstream is a single producer  *)
(* that emits the values of a finite sequence in order (builders.rs,       *)
(* into_flow), each emit running take's closure to its end before the next *)
(* value is produced.                                                      *)
(***************************************************************************)

\* what a step of Part II leaves alone outside Part II
TakeFrame == UNCHANGED <<jobVars, opVars, hotVars, sharedVars, seqVars, manyVars>>

RECURSIVE SeqsUpTo(_)
\* the sequences over Values of length at most n
SeqsUpTo(n) ==
    IF n = 0 THEN {<<>>}
    ELSE LET shorter == SeqsUpTo(n - 1)
         IN shorter \cup {Append(q, v) : q \in {r \in shorter : Len(r) = n - 1},
                                          v \in Values}

\* a test that lets one value too many through
take_forwards_inclusive(prev_emitted, limit) == prev_emitted <= limit

\* take's closure, "if prev_emitted < count"
take_forwards(prev_emitted, limit) == prev_emitted < limit

\* Flow::collect on take(count): "emitted = AtomicUsize::new(0)" and the
\* upstream starts; the upstream sequence and count are the inputs
TakeInit ==
    /\ JobIdle
    /\ ManyIdle
    /\ OpIdle
    /\ HotIdle
    /\ SharedIdle
    /\ SeqIdle
    /\ upstream \in SeqsUpTo(MaxLen)
    /\ count \in 0..MaxCount
    /\ emitted = 0
    /\ pos = 0
    /\ out = <<>>
    /\ fpc = "collecting"
    /\ endless = FALSE
    /\ remaining = 0

\* the upstream emits its next value into take's closure:
\* prev_emitted = emitted.fetch_add(1), and the value goes to the downstream
\* collector when prev_emitted < count.  (emitted is a usize; it cannot wrap
\* within a sequence of fewer than 2^64 values.)
take_on_value ==
    /\ fpc = "collecting"
    /\ pos < Len(upstream)
    /\ pos' = pos + 1
    /\ emitted' = emitted + 1
    /\ out' = IF take_forwards(emitted, count)
              THEN Append(out, upstream[pos + 1])
              ELSE out
    /\ UNCHANGED <<upstream, count, fpc, endless, remaining>>
    /\ TakeFrame

\* the upstream has emitted all its values: upstream.collect(..).await and
\* with it the collect of take return
take_upstream_done ==
    /\ fpc = "collecting"
    /\ ~endless
    /\ pos = Len(upstream)
    /\ fpc' = "done"
    /\ UNCHANGED <<upstream, count, emitted, pos, out, endless, remaining>>
    /\ TakeFrame

TakeNext ==
    \/ take_on_value
    \/ take_upstream_done

TakeSpec == TakeInit /\ [][TakeNext]_vars

Min(a, b) == IF a <= b THEN a ELSE b

\* C10: one collect of take(count) over a single producer that emits the
\* finite sequence upstream delivers exactly the first
\* min(count, Len(upstream)) values of it, in order (and a prefix of them
\* at every moment before).
C10_TakeDeliversPrefix ==
    /\ Len(out) <= Min(count, pos)
    /\ out = SubSeq(upstream, 1, Len(out))
    /\ fpc = "done" =>
            out = SubSeq(upstream, 1, Min(count, Len(upstream)))

\* C10 witness: a finished collect in which take cut a longer upstream short
C10_Witness ==
    /\ fpc = "done"
    /\ 0 < count
    /\ count < Len(upstream)
    /\ Len(out) = count

(***************************************************************************)
(* FlowExt::take over an upstream that never completes (builders.rs,       *)
(* repeat_flow: "loop { collector.emit(value.clone()).await }").           *)
(***************************************************************************)

\* Flow::collect on repeat_flow(v).take(count)
RepeatInit ==
    /\ JobIdle
    /\ ManyIdle
    /\ OpIdle
    /\ HotIdle
    /\ SharedIdle
    /\ SeqIdle
    /\ upstream \in {<<v>> : v \in Values}
    /\ count \in 0..MaxCount
    /\ emitted = 0
    /\ pos = 0
    /\ out = <<>>
    /\ fpc = "collecting"
    /\ endless = TRUE
    /\ remaining = 0

\* one turn of repeat_flow's loop: the value goes into take's closure, which
\* counts it and forwards it when prev_emitted < count.  The loop has no
\* exit and take gives it none.  (The model follows MaxEmits turns.)
repeat_on_value ==
    /\ fpc = "collecting"
    /\ endless
    /\ pos < MaxEmits
    /\ pos' = pos + 1
    /\ emitted' = emitted + 1
    /\ out' = IF take_forwards(emitted, count)
              THEN Append(out, upstream[1])
              ELSE out
    /\ UNCHANGED <<upstream, count, fpc, endless, remaining>>
    /\ TakeFrame

\* take_upstream_done is never enabled here: upstream.collect(..) does not
\* return
RepeatNext == repeat_on_value

RepeatSpec == RepeatInit /\ [][RepeatNext]_vars

\* C11: over an upstream that never completes, once take(count) has
\* delivered its count-th value (at once for count = 0) the upstream is
\* stopped: it is not run for another value, and the collect returns.
C11_TakeStopsEndlessUpstream ==
    [][(endless /\ fpc = "collecting" /\ emitted >= count) =>
            (pos' = pos /\ fpc' = "done")]_vars

(***************************************************************************)
(* lib.rs, the inherent Flow::take(limit).                                 *)
(***************************************************************************)

\* the closure's counter after a forwarded value.  "remaining -= 1" stands
\* inside the closure's "async move" block; remaining is a usize (Copy), so
\* the block owns a copy of the closure's captured value and decrements
\* that copy: the captured value the next call starts from is unchanged.
Flow_take_remaining_after(captured) == captured

\* Flow::collect on take(limit) of lib.rs; count holds limit
LibTakeInit ==
    /\ JobIdle
    /\ ManyIdle
    /\ OpIdle
    /\ HotIdle
    /\ SharedIdle
    /\ SeqIdle
    /\ upstream \in SeqsUpTo(MaxLen)
    /\ count \in 0..MaxCount
    /\ emitted = 0
    /\ pos = 0
    /\ out = <<>>
    /\ fpc = "start"
    /\ endless = FALSE
    /\ remaining = count

\* "let mut remaining = limit; if remaining == 0 { return; }", else the
\* upstream is collected
lib_take_start ==
    /\ fpc = "start"
    /\ fpc' = IF remaining = 0 THEN "done" ELSE "collecting"
    /\ UNCHANGED <<upstream, count, emitted, pos, out, endless, remaining>>
    /\ TakeFrame

\* the upstream emits its next value into the closure:
\* "if remaining > 0 { remaining -= 1; collector.emit(value.clone()) }"
lib_take_on_value ==
    /\ fpc = "collecting"
    /\ pos < Len(upstream)
    /\ pos' = pos + 1
    /\ IF remaining > 0
       THEN /\ remaining' = Flow_take_remaining_after(remaining)
            /\ out' = Append(out, upstream[pos + 1])
       ELSE UNCHANGED <<remaining, out>>
    /\ UNCHANGED <<upstream, count, emitted, fpc, endless>>
    /\ TakeFrame

LibTakeNext ==
    \/ lib_take_start
    \/ lib_take_on_value
    \/ take_upstream_done

LibTakeSpec == LibTakeInit /\ [][LibTakeNext]_vars

\* C12: the inherent Flow::take(limit) forwards at most limit values per
\* collect, its remaining count going down by one with every forwarded
\* value, so that a collect delivers exactly the first
\* min(limit, Len(upstream)) values.
C12_LibTakeCountsDown ==
    /\ Len(out) <= count
    /\ remaining = count - Len(out)
    /\ fpc = "done" =>
            out = SubSeq(upstream, 1, Min(count, Len(upstream)))

(***************************************************************************)
(* Part III.  Operators that run their upstreams in spawned tasks          *)
(* (combining.rs, operators.rs).                                           *)
(*                                                                         *)
(* Each source s is collected by its own tokio task, whose closure hands   *)
(* every value to a bounded mpsc channel; the collect future of the        *)
(* operator is the only receiver.  Values are followed by their identity:  *)
(* <<s, i>> is the i-th value of source s.                                 *)
(***************************************************************************)

\* what a step of Part III leaves alone outside Part III
OpFrame == UNCHANGED <<jobVars, takeVars, hotVars, sharedVars, seqVars, manyVars>>

\* the sources the collect spawned a task for
Active == {s \in Srcs : tpc[s] # "none"}

\* a task is over: its future returned or unwound, and was dropped with the
\* Sender clones it owned
Finished(s) == tpc[s] \in {"done", "panicked"}

\* the channel source s sends into: tx1 / tx2 for zip, the one tx otherwise
ChanOf(s) ==
    IF op = "zip" THEN s
    ELSE IF op = "sample" THEN (IF s = 2 THEN 1 ELSE 0)
    ELSE 1

\* the tasks that own a Sender of channel c
SendersOf(c) == {s \in Active : ChanOf(s) = c}

\* a channel that hands the newest value out first
mpsc_send_lifo(queue, item) == <<item>> \o queue

\* Sender::send once there is room: the value goes to the back of the queue
mpsc_send(queue, item) == Append(queue, item)

\* a channel that takes every value at once
mpsc_has_room_unbounded(queue, capacity) == TRUE

\* Sender::send(..).await can complete: the queue has room
mpsc_has_room(queue, capacity) == Len(queue) < capacity

\* a channel that ends with its last Sender, whatever is still queued
mpsc_closed_with_senders(c) == \A s \in SendersOf(c) : Finished(s)

\* Receiver::recv() returns None: the queue is empty and every Sender is
\* dropped (the collect future dropped its own tx right after spawning)
mpsc_closed(c) == chan[c] = <<>> /\ \A s \in SendersOf(c) : Finished(s)

\* the task of source s: the source emits its next value and the closure
\* "let _ = tx.send(value).await" puts it into the channel (merge, zip,
\* buffer); the emit is suspended while the channel is full
src_send(s) ==
    /\ op \in {"merge", "zip", "buffer", "flow_on"} \/ (op = "sample" /\ s = 2)
    /\ tpc[s] = "running"
    /\ tendless[s] \/ tpos[s] < tlen[s]
    /\ mpsc_has_room(chan[ChanOf(s)], cap)
    /\ chan' = [chan EXCEPT ![ChanOf(s)] = mpsc_send(@, <<s, tpos[s] + 1>>)]
    /\ tpos' = [tpos EXCEPT ![s] = @ + 1]
    /\ UNCHANGED <<op, ilen, tlen, tendless, tpanics, tpc, cap, latest, held, cpc,
                   cout, due, outcome>>
    /\ OpFrame

\* the source has emitted all its values: upstream.collect(..) returns and
\* the task ends, or the source panics and the task unwinds
src_finish(s) ==
    /\ tpc[s] = "running"
    /\ ~tendless[s]
    /\ tpos[s] = tlen[s]
    /\ tpc' = [tpc EXCEPT ![s] = IF tpanics[s] THEN "panicked" ELSE "done"]
    /\ UNCHANGED <<op, ilen, tlen, tendless, tpanics, tpos, chan, cap, latest, held,
                   cpc, cout, due, outcome>>
    /\ OpFrame

\* "while let Some(value) = rx.recv().await { collector.emit(value).await }"
\* of merge, buffer and flow_on, one turn
op_recv ==
    /\ op \in {"merge", "buffer", "flow_on"}
    /\ cpc = "recv"
    /\ chan[1] # <<>>
    /\ cout' = Append(cout, Head(chan[1]))
    /\ chan' = [chan EXCEPT ![1] = Tail(@)]
    /\ UNCHANGED <<op, ilen, tlen, tendless, tpanics, tpos, tpc, cap, latest, held,
                   cpc, due, outcome>>
    /\ OpFrame

\* rx.recv() returned None: the loop ends; flow_on, which kept no
\* JoinHandle, returns
op_recv_none ==
    /\ op \in {"merge", "buffer", "flow_on", "flat_map_latest", "combine",
               "sample"}
    /\ cpc = "recv"
    /\ mpsc_closed(1)
    /\ cpc' = IF op \in {"combine", "sample"} THEN "join1"
              ELSE IF op = "flow_on" THEN "done"
              ELSE "join"
    /\ outcome' = IF op = "flow_on" THEN "returned" ELSE outcome
    /\ UNCHANGED <<op, ilen, tlen, tendless, tpanics, tpos, tpc, chan, cap, latest,
                   held, cout, due>>
    /\ OpFrame

\* an await that does not wait for the task
JoinHandle_ready_detached(s) == TRUE

\* "task.await" on a JoinHandle completes when the task has ended, by
\* returning or by a panic
JoinHandle_ready(s) == Finished(s)

\* what the collect future makes of its tasks' results:
\* "let _ = producer.await" / "let _ = task.await" throw the
\* Result<(), JoinError> away, a panicked task included
JoinHandle_await_discarded(states) == "returned"

\* the collect future awaits the JoinHandles of all its tasks and returns
op_join ==
    /\ op \in {"merge", "buffer", "flat_map_latest"}
    /\ cpc = "join"
    /\ \A s \in Active : JoinHandle_ready(s)
    /\ cpc' = "done"
    /\ outcome' = JoinHandle_await_discarded([s \in Active |-> tpc[s]])
    /\ UNCHANGED <<op, ilen, tlen, tendless, tpanics, tpos, tpc, chan, cap, latest,
                   held, cout, due>>
    /\ OpFrame

\* Flow::collect on merge(flows): a channel of 16, one task per flow, and
\* the collect future drops its own tx
MergeInit ==
    /\ JobIdle
    /\ ManyIdle
    /\ TakeIdle
    /\ HotIdle
    /\ SharedIdle
    /\ SeqIdle
    /\ op = "merge"
    /\ \E n \in 0..MaxSrcs :
          /\ tpc = [s \in Srcs |-> IF s <= n THEN "running" ELSE "none"]
          /\ tlen \in [Srcs -> 0..MaxOpLen]
          /\ \A s \in Srcs : s > n => tlen[s] = 0
    /\ ilen = 0
    /\ tendless = [s \in Srcs |-> FALSE]
    /\ tpanics = [s \in Srcs |-> FALSE]
    /\ tpos = [s \in Srcs |-> 0]
    /\ chan = [c \in Chans |-> <<>>]
    /\ cap = ChannelCapacity
    /\ latest = [c \in Chans |-> 0]
    /\ held = [c \in Chans |-> 0]
    /\ cpc = "recv"
    /\ cout = <<>>
    /\ due = <<>>
    /\ outcome = "none"

MergeNext ==
    \/ \E s \in Srcs : src_send(s)
    \/ \E s \in Srcs : src_finish(s)
    \/ op_recv
    \/ op_recv_none
    \/ op_join

MergeSpec == MergeInit /\ [][MergeNext]_vars

\* the values of source s in q, in the order they stand in q
OfSource(q, s) == SelectSeq(q, LAMBDA item : item[1] = s)

\* the first n values of source s, in the order the source emitted them
FirstOf(s, n) == [i \in 1..n |-> <<s, i>>]

RECURSIVE SumLen(_)
\* tlen[1] + ... + tlen[n]
SumLen(n) == IF n = 0 THEN 0 ELSE tlen[n] + SumLen(n - 1)

\* C14: in every interleaving the downstream of merge holds the values of
\* each source in their original order with none lost or repeated, and when
\* the collect returns all sources have completed and every value of every
\* source was delivered exactly once.
C14_MergeShuffle ==
    /\ \A s \in Srcs :
          OfSource(cout \o chan[1], s) = FirstOf(s, tpos[s])
    /\ cpc = "done" =>
          /\ \A s \in Active : tpc[s] = "done"
          /\ \A s \in Srcs : OfSource(cout, s) = FirstOf(s, tlen[s])
          /\ Len(cout) = SumLen(MaxSrcs)

\* C14 witness: a finished merge of two sources of two values each whose
\* output starts with the second source and then goes back to the first
C14_Witness ==
    /\ op = "merge"
    /\ cpc = "done"
    /\ tlen[1] = 2 /\ tlen[2] = 2
    /\ Len(cout) = 4
    /\ cout[1] = <<2, 1>>
    /\ cout[2] = <<1, 1>>

(***************************************************************************)
(* flat_map_latest (operators.rs).  Source 1 is the upstream; the channel  *)
(* carries the inner flows, <<1, i>> being f(i-th upstream value); the     *)
(* downstream value <<i, j>> is the j-th value of that inner flow.         *)
(***************************************************************************)

\* the upstream emits its next value: the producer's closure starts and
\* "f(value).await" yields the inner flow
fml_emit ==
    /\ op = "flat_map_latest"
    /\ tpc[1] = "running"
    /\ tpos[1] < tlen[1]
    /\ tpos' = [tpos EXCEPT ![1] = @ + 1]
    /\ tpc' = [tpc EXCEPT ![1] = "sending"]
    /\ UNCHANGED <<op, ilen, tlen, tendless, tpanics, chan, cap, latest, held,
                   cpc, cout, due, outcome>>
    /\ OpFrame

\* "let _ = tx.send(flow).await" completes once the channel has room
fml_send ==
    /\ op = "flat_map_latest"
    /\ tpc[1] = "sending"
    /\ mpsc_has_room(chan[1], cap)
    /\ chan' = [chan EXCEPT ![1] = mpsc_send(@, <<1, tpos[1]>>)]
    /\ tpc' = [tpc EXCEPT ![1] = "running"]
    /\ UNCHANGED <<op, ilen, tlen, tendless, tpanics, tpos, cap, latest, held,
                   cpc, cout, due, outcome>>
    /\ OpFrame

\* "while let Some(inner_flow) = rx.recv().await": the consumer takes the
\* next inner flow and starts collecting it
fml_recv ==
    /\ op = "flat_map_latest"
    /\ cpc = "recv"
    /\ chan[1] # <<>>
    /\ held' = [held EXCEPT ![1] = Head(chan[1])[2], ![2] = 0]
    /\ chan' = [chan EXCEPT ![1] = Tail(@)]
    /\ cpc' = "inner"
    /\ UNCHANGED <<op, ilen, tlen, tendless, tpanics, tpos, tpc, cap, latest,
                   cout, due, outcome>>
    /\ OpFrame

\* the inner flow emits its next value: "collector.emit(value).await"
fml_inner_emit ==
    /\ op = "flat_map_latest"
    /\ cpc = "inner"
    /\ held[2] < ilen
    /\ cout' = Append(cout, <<held[1], held[2] + 1>>)
    /\ held' = [held EXCEPT ![2] = @ + 1]
    /\ UNCHANGED <<op, ilen, tlen, tendless, tpanics, tpos, tpc, chan, cap,
                   latest, cpc, due, outcome>>
    /\ OpFrame

\* "inner_flow.collect(..).await" returns: the inner flow is exhausted, and
\* only now does the consumer look at the channel again
fml_inner_done ==
    /\ op = "flat_map_latest"
    /\ cpc = "inner"
    /\ held[2] = ilen
    /\ cpc' = "recv"
    /\ UNCHANGED <<op, ilen, tlen, tendless, tpanics, tpos, tpc, chan, cap,
                   latest, held, cout, due, outcome>>
    /\ OpFrame

FlatMapLatestInit ==
    /\ JobIdle
    /\ ManyIdle
    /\ TakeIdle
    /\ HotIdle
    /\ SharedIdle
    /\ SeqIdle
    /\ op = "flat_map_latest"
    /\ tpc = [s \in Srcs |-> IF s = 1 THEN "running" ELSE "none"]
    /\ \E n \in 0..MaxLen : tlen = [s \in Srcs |-> IF s = 1 THEN n ELSE 0]
    /\ ilen \in 0..MaxOpLen
    /\ tendless = [s \in Srcs |-> FALSE]
    /\ tpanics = [s \in Srcs |-> FALSE]
    /\ tpos = [s \in Srcs |-> 0]
    /\ chan = [c \in Chans |-> <<>>]
    /\ cap = InnerFlowCapacity
    /\ latest = [c \in Chans |-> 0]
    /\ held = [c \in Chans |-> 0]
    /\ cpc = "recv"
    /\ cout = <<>>
    /\ due = <<>>
    /\ outcome = "none"

FlatMapLatestNext ==
    \/ fml_emit
    \/ fml_send
    \/ src_finish(1)
    \/ fml_recv
    \/ fml_inner_emit
    \/ fml_inner_done
    \/ op_recv_none
    \/ op_join

FlatMapLatestSpec == FlatMapLatestInit /\ [][FlatMapLatestNext]_vars

\* C13: a value that reaches the downstream collector of flat_map_latest
\* comes from the inner stream of the latest value the upstream has emitted:
\* once b has arrived, nothing of a's inner stream is delivered any more.
C13_OnlyLatestInnerDelivers ==
    [][(op = "flat_map_latest" /\ Len(cout') > Len(cout))
          => cout'[Len(cout')][1] = tpos[1]]_vars

(***************************************************************************)
(* zip (combining.rs).  Source 1 is self, source 2 is other; each has its  *)
(* own channel; the downstream value <<i, j>> is transform(a_i, b_j).      *)
(***************************************************************************)

\* a receive that found the channel closed, or a value, as an index
\* (0: None)
RecvOf(c) == IF chan[c] # <<>> THEN Head(chan[c])[2] ELSE 0

\* a loop that goes on while either receive returned a value
zip_both_some_either(v1, v2) == v1 # 0 \/ v2 # 0

\* the pattern (Some(v1), Some(v2)) of the while let
zip_both_some(v1, v2) == v1 # 0 /\ v2 # 0

\* first element of the tuple: rx1.recv().await returns a value or None
zip_recv1 ==
    /\ op = "zip"
    /\ cpc = "recv1"
    /\ chan[1] # <<>> \/ mpsc_closed(1)
    /\ held' = [held EXCEPT ![1] = RecvOf(1)]
    /\ chan' = [chan EXCEPT ![1] = IF @ # <<>> THEN Tail(@) ELSE @]
    /\ cpc' = "recv2"
    /\ UNCHANGED <<op, ilen, tlen, tendless, tpanics, tpos, tpc, cap, latest,
                   cout, due, outcome>>
    /\ OpFrame

\* second element of the tuple: rx2.recv().await is awaited whatever the
\* first receive returned; then the pattern decides between emitting
\* transform(v1, v2) and leaving the loop
zip_recv2 ==
    /\ op = "zip"
    /\ cpc = "recv2"
    /\ chan[2] # <<>> \/ mpsc_closed(2)
    /\ chan' = [chan EXCEPT ![2] = IF @ # <<>> THEN Tail(@) ELSE @]
    /\ held' = [held EXCEPT ![1] = 0]
    /\ IF zip_both_some(held[1], RecvOf(2))
          THEN /\ cout' = Append(cout, <<held[1], RecvOf(2)>>)
               /\ cpc' = "recv1"
          ELSE /\ cout' = cout
               /\ cpc' = "join1"
    /\ UNCHANGED <<op, ilen, tlen, tendless, tpanics, tpos, tpc, cap, latest,
                   due, outcome>>
    /\ OpFrame

\* "let _ = task1.await" of zip and combine; zip's rx1 and rx2 are still
\* alive
zip_join1 ==
    /\ op \in {"zip", "combine", "sample"}
    /\ cpc = "join1"
    /\ JoinHandle_ready(1)
    /\ cpc' = "join2"
    /\ UNCHANGED <<op, ilen, tlen, tendless, tpanics, tpos, tpc, chan, cap,
                   latest, held, cout, due, outcome>>
    /\ OpFrame

\* "let _ = task2.await", after which the collect returns
zip_join2 ==
    /\ op \in {"zip", "combine", "sample"}
    /\ cpc = "join2"
    /\ JoinHandle_ready(2)
    /\ cpc' = "done"
    /\ outcome' = JoinHandle_await_discarded([s \in Active |-> tpc[s]])
    /\ UNCHANGED <<op, ilen, tlen, tendless, tpanics, tpos, tpc, chan, cap,
                   latest, held, cout, due>>
    /\ OpFrame

\* Flow::collect on a.zip(b, f): two channels of 16 and two tasks.  At
\* most one side is endless (two endless sides zip forever).
ZipInit ==
    /\ JobIdle
    /\ ManyIdle
    /\ TakeIdle
    /\ HotIdle
    /\ SharedIdle
    /\ SeqIdle
    /\ op = "zip"
    /\ tpc = [s \in Srcs |-> IF s \in Chans THEN "running" ELSE "none"]
    /\ tlen \in [Srcs -> 0..MaxOpLen]
    /\ \A s \in Srcs \ Chans : tlen[s] = 0
    /\ ilen = 0
    /\ tendless \in [Srcs -> BOOLEAN]
    /\ \A s \in Srcs \ Chans : ~tendless[s]
    /\ ~(tendless[1] /\ tendless[2])
    /\ \A s \in Chans : tendless[s] => tlen[s] = 0
    /\ tpanics = [s \in Srcs |-> FALSE]
    /\ tpos = [s \in Srcs |-> 0]
    /\ chan = [c \in Chans |-> <<>>]
    /\ cap = ChannelCapacity
    /\ latest = [c \in Chans |-> 0]
    /\ held = [c \in Chans |-> 0]
    /\ cpc = "recv1"
    /\ cout = <<>>
    /\ due = <<>>
    /\ outcome = "none"

ZipNext ==
    \/ \E s \in Chans : src_send(s)
    \/ \E s \in Chans : src_finish(s)
    \/ zip_recv1
    \/ zip_recv2
    \/ zip_join1
    \/ zip_join2

ZipSpec == ZipInit /\ [][ZipNext]_vars

\* the number of pairs two sides have: min(m, k), an endless side having
\* more values than any other
ZipPairs ==
    IF tendless[1] THEN tlen[2]
    ELSE IF tendless[2] THEN tlen[1]
    ELSE Min(tlen[1], tlen[2])

\* C15: zip's i-th emission is f(a_i, b_i); it never emits more than
\* min(m, k) values nor a value built from an unpaired element, and when
\* its pairing loop has ended it has emitted exactly min(m, k) values.
C15_ZipPairsPositionally ==
    op = "zip" =>
       /\ \A i \in 1..Len(cout) : cout[i] = <<i, i>>
       /\ Len(cout) <= ZipPairs
       /\ cpc \in {"join1", "join2", "done"} => Len(cout) = ZipPairs

\* C15 witness: sides of two and one values zipped to the end: one pair
C15_Witness ==
    /\ op = "zip"
    /\ cpc = "done"
    /\ ~tendless[1] /\ ~tendless[2]
    /\ tlen[1] = 2 /\ tlen[2] = 1
    /\ cout = << <<1, 1>> >>

\* one side of the zip has ended and all its values were taken
Exhausted(s) == tpc[s] = "done" /\ chan[s] = <<>>

\* C16: once either side of a zip is exhausted the collect can always go
\* on to its return: it is never left without a possible step before it
\* has returned, whatever the other side still has to emit.
C16_ZipTerminatesWhenOneSideEnds ==
    (op = "zip" /\ cpc # "done" /\ \E s \in Chans : Exhausted(s))
        => ENABLED ZipNext

(***************************************************************************)
(* combine (combining.rs).  Source 1 is self, source 2 is other; the one   *)
(* channel carries pairs <<v1, v2>> of Option values (0: None, i: the i-th *)
(* value of that side), and so does the downstream.                        *)
(***************************************************************************)

\* the other side
Other(s) == 3 - s

\* the pair task s sends: its own new value and what it read of the other
PairOf(s, own, other) == IF s = 1 THEN <<own, other>> ELSE <<other, own>>

\* side s produces its next value and the closure stores it:
\* "*latest1.lock().await = Some(value.clone())"; the guard is released at
\* the end of the statement
combine_set(s) ==
    /\ op = "combine"
    /\ tpc[s] = "running"
    /\ tpos[s] < tlen[s]
    /\ tpos' = [tpos EXCEPT ![s] = @ + 1]
    /\ latest' = [latest EXCEPT ![s] = tpos[s] + 1]
    /\ tpc' = [tpc EXCEPT ![s] = "read"]
    /\ due' = IF latest[Other(s)] # 0
                 THEN Append(due, PairOf(s, tpos[s] + 1, latest[Other(s)]))
                 ELSE due
    /\ UNCHANGED <<op, ilen, tlen, tendless, tpanics, chan, cap, held, cpc,
                   cout, outcome>>
    /\ OpFrame

\* "let l2 = latest2.lock().await.clone()": a second, separate lock
combine_read(s) ==
    /\ op = "combine"
    /\ tpc[s] = "read"
    /\ held' = [held EXCEPT ![s] = latest[Other(s)]]
    /\ tpc' = [tpc EXCEPT ![s] = "send"]
    /\ UNCHANGED <<op, ilen, tlen, tendless, tpanics, tpos, chan, cap, latest,
                   cpc, cout, due, outcome>>
    /\ OpFrame

\* "let _ = tx.send((Some(value), l2)).await"
combine_send(s) ==
    /\ op = "combine"
    /\ tpc[s] = "send"
    /\ mpsc_has_room(chan[1], cap)
    /\ chan' = [chan EXCEPT ![1] = mpsc_send(@, PairOf(s, tpos[s], held[s]))]
    /\ held' = [held EXCEPT ![s] = 0]
    /\ tpc' = [tpc EXCEPT ![s] = "running"]
    /\ UNCHANGED <<op, ilen, tlen, tendless, tpanics, tpos, cap, latest, cpc,
                   cout, due, outcome>>
    /\ OpFrame

\* "while let Some((v1, v2)) = rx.recv().await": a pair is emitted when
\* both its halves are Some
combine_recv ==
    /\ op = "combine"
    /\ cpc = "recv"
    /\ chan[1] # <<>>
    /\ cout' = IF Head(chan[1])[1] # 0 /\ Head(chan[1])[2] # 0
                  THEN Append(cout, Head(chan[1]))
                  ELSE cout
    /\ chan' = [chan EXCEPT ![1] = Tail(@)]
    /\ UNCHANGED <<op, ilen, tlen, tendless, tpanics, tpos, tpc, cap, latest,
                   held, cpc, due, outcome>>
    /\ OpFrame

CombineInit ==
    /\ JobIdle
    /\ ManyIdle
    /\ TakeIdle
    /\ HotIdle
    /\ SharedIdle
    /\ SeqIdle
    /\ op = "combine"
    /\ tpc = [s \in Srcs |-> IF s \in Chans THEN "running" ELSE "none"]
    /\ tlen \in [Srcs -> 0..MaxOpLen]
    /\ \A s \in Srcs \ Chans : tlen[s] = 0
    /\ ilen = 0
    /\ tendless = [s \in Srcs |-> FALSE]
    /\ tpanics = [s \in Srcs |-> FALSE]
    /\ tpos = [s \in Srcs |-> 0]
    /\ chan = [c \in Chans |-> <<>>]
    /\ cap = ChannelCapacity
    /\ latest = [c \in Chans |-> 0]
    /\ held = [c \in Chans |-> 0]
    /\ cpc = "recv"
    /\ cout = <<>>
    /\ due = <<>>
    /\ outcome = "none"

CombineNext ==
    \/ \E s \in Chans : combine_set(s)
    \/ \E s \in Chans : combine_read(s)
    \/ \E s \in Chans : combine_send(s)
    \/ \E s \in Chans : src_finish(s)
    \/ combine_recv
    \/ op_recv_none
    \/ zip_join1
    \/ zip_join2

CombineSpec == CombineInit /\ [][CombineNext]_vars

\* C17: combine never has emitted more values than were produced while the
\* other side already had one (so nothing before both sides produced), and
\* when it returns it has emitted exactly one value for each of them, the
\* pair of the latest values at that moment.
C17_CombineOnePerValue ==
    op = "combine" =>
       /\ Len(cout) <= Len(due)
       /\ cpc = "done" => cout = due

\* C39: the pairs combine emits never go backwards: a later pair holds of
\* neither side an older value than an earlier pair, and when the collect
\* has returned after emitting, the last pair emitted holds the last value
\* of each side.
C39_CombineNeverGoesBackwards ==
    op = "combine" =>
       /\ \A i \in 1..Len(cout) : \A j \in 1..Len(cout) :
             i < j => (cout[i][1] <= cout[j][1] /\ cout[i][2] <= cout[j][2])
       /\ (cpc = "done" /\ cout # <<>>) =>
             cout[Len(cout)] = <<tlen[1], tlen[2]>>

(***************************************************************************)
(* buffer and flow_on (operators.rs), over an upstream that may panic.     *)
(* Source 1 is the upstream, collected by the producer task; a panic of    *)
(* the upstream unwinds that task, which tokio turns into the task's       *)
(* JoinError.  flow_on is buffer with a channel of 16, its producer        *)
(* spawned on the dispatcher and never joined.                             *)
(***************************************************************************)

\* Flow::collect on upstream.buffer(capacity) or upstream.flow_on(d)
BufferInit ==
    /\ JobIdle
    /\ ManyIdle
    /\ TakeIdle
    /\ HotIdle
    /\ SharedIdle
    /\ SeqIdle
    /\ op \in {"buffer", "flow_on"}
    /\ tpc = [s \in Srcs |-> IF s = 1 THEN "running" ELSE "none"]
    /\ \E n \in 0..MaxLen : tlen = [s \in Srcs |-> IF s = 1 THEN n ELSE 0]
    /\ ilen = 0
    /\ tendless = [s \in Srcs |-> FALSE]
    /\ \E p \in BOOLEAN : tpanics = [s \in Srcs |-> s = 1 /\ p]
    /\ tpos = [s \in Srcs |-> 0]
    /\ chan = [c \in Chans |-> <<>>]
    /\ cap \in IF op = "buffer" THEN 1..MaxCap ELSE {ChannelCapacity}
    /\ latest = [c \in Chans |-> 0]
    /\ held = [c \in Chans |-> 0]
    /\ cpc = "recv"
    /\ cout = <<>>
    /\ due = <<>>
    /\ outcome = "none"

BufferNext ==
    \/ src_send(1)
    \/ src_finish(1)
    \/ op_recv
    \/ op_recv_none
    \/ op_join

BufferSpec == BufferInit /\ [][BufferNext]_vars

\* C18: when the upstream of buffer panicked, the collect of the buffered
\* flow ends by that panic reaching its caller (where a downstream
\* catch_panic or retry would observe it); it does not return normally.
C18_PanicCrossesSpawnedTask ==
    (op = "buffer" /\ cpc = "done" /\ tpc[1] = "panicked")
        => outcome = "panicked"

\* C36: at every moment the values buffer or flow_on has delivered,
\* followed by the values still in the channel, are the values the upstream
\* has emitted, in their order, each once; and when the collect has
\* returned every value of the upstream was delivered.
C36_BufferKeepsOrderAndValues ==
    op \in {"buffer", "flow_on"} =>
       /\ cout \o chan[1] = FirstOf(1, tpos[1])
       /\ cpc = "done" => cout = FirstOf(1, tlen[1])

\* C36 witness: buffer(1) over three values: two were delivered, the third
\* waits in the channel and the producer task has ended
C36_Witness ==
    /\ op = "buffer" /\ cap = 1
    /\ tlen[1] = 3
    /\ tpc[1] = "done"
    /\ cout = FirstOf(1, 2)
    /\ chan[1] = <<<<1, 3>>>>

\* C37: the channel of buffer(capacity) never holds more than capacity
\* values, and while it holds capacity values an emit of the producer
\* cannot complete: it can only after the consumer has taken a value.
C37_BufferBackpressure ==
    op = "buffer" =>
       /\ Len(chan[1]) <= cap
       /\ Len(chan[1]) = cap => ~ENABLED src_send(1)

\* C37 witness: buffer(2) is full and the upstream has a further value to
\* emit
C37_Witness ==
    /\ op = "buffer" /\ cap = 2
    /\ Len(chan[1]) = 2
    /\ tpc[1] = "running"
    /\ tpos[1] < tlen[1]

(***************************************************************************)
(* Part IV.  StateFlow (hot_flow.rs): a tokio watch channel of which the   *)
(* StateFlow keeps the Sender only.                                        *)
(***************************************************************************)

HotFrame == UNCHANGED <<jobVars, takeVars, opVars, sharedVars, seqVars, manyVars>>

\* watch::Sender::send: with no Receiver alive it returns Err(SendError)
\* and leaves the stored value alone; otherwise it replaces the value
watch_send(stored, receivers, value) ==
    IF receivers = 0 THEN stored ELSE value

\* StateFlow::get: self.tx.borrow().clone()
StateFlow_get == sval

\* StateFlow::new(initial): "let (tx, _) = watch::channel(initial)", the
\* Receiver of the pair is dropped at once
StateFlowInit ==
    /\ JobIdle
    /\ ManyIdle
    /\ TakeIdle
    /\ OpIdle
    /\ SharedIdle
    /\ SeqIdle
    /\ sval \in Values
    /\ sver = 0
    /\ rxcount = 0
    /\ vstate = "none"
    /\ views = 0
    /\ vsnap = 0
    /\ hpc = "none"
    /\ cver = 0
    /\ hout = <<>>
    /\ atStart = 0
    /\ lastEmit = 0
    /\ writes = 0
    /\ sidx = 0
    /\ hidx = <<>>

\* StateFlow::emit(value) and StateFlow::set(value):
\* "let _ = self.tx.send(value)"
StateFlow_emit(value) ==
    /\ writes < MaxWrites
    /\ sval' = watch_send(sval, rxcount, value)
    /\ sver' = IF rxcount = 0 THEN sver ELSE sver + 1
    /\ lastEmit' = value
    /\ writes' = writes + 1
    /\ sidx' = IF rxcount = 0 THEN sidx ELSE writes + 1
    /\ UNCHANGED <<rxcount, vstate, views, vsnap, hpc, cver, hout, atStart,
                   hidx>>
    /\ HotFrame

\* StateFlow::as_flow(): "let rx = self.tx.subscribe()" moves into the Flow
StateFlow_as_flow ==
    /\ vstate \in {"none", "dropped"}
    /\ views < MaxViews
    /\ vstate' = "live"
    /\ views' = views + 1
    /\ rxcount' = rxcount + 1
    /\ vsnap' = sval
    /\ UNCHANGED <<sval, sver, hpc, cver, hout, atStart, lastEmit, writes,
                   sidx, hidx>>
    /\ HotFrame

\* a first emission that is the value as_flow() saw
as_flow_first_snapshot(snapshot, current) == snapshot

\* the first emission of a collection:
\* "let current = rx.borrow_and_update().clone()"
as_flow_first(snapshot, current) == current

\* Flow::collect on the Flow of as_flow(), for the first time or again after
\* an earlier collection ended: "let mut rx = rx.clone()", then the current
\* value is emitted first
as_flow_collect ==
    /\ vstate = "live"
    /\ hpc \in {"none", "stopped"}
    /\ hpc' = "waiting"
    /\ rxcount' = rxcount + 1
    /\ cver' = sver
    /\ atStart' = sval
    /\ hout' = <<as_flow_first(vsnap, sval)>>
    /\ hidx' = <<sidx>>
    /\ UNCHANGED <<sval, sver, vstate, views, vsnap, lastEmit, writes, sidx>>
    /\ HotFrame

\* "while rx.changed().await.is_ok()": a version the Receiver has not seen
\* wakes it and the value held now is emitted
as_flow_changed ==
    /\ hpc = "waiting"
    /\ cver # sver
    /\ cver' = sver
    /\ hout' = Append(hout, sval)
    /\ hidx' = Append(hidx, sidx)
    /\ UNCHANGED <<sval, sver, rxcount, vstate, views, vsnap, hpc, atStart,
                   lastEmit, writes, sidx>>
    /\ HotFrame

\* the Flow of as_flow() is dropped, and its Receiver with it
as_flow_dropped ==
    /\ vstate = "live"
    /\ vstate' = "dropped"
    /\ rxcount' = rxcount - 1
    /\ UNCHANGED <<sval, sver, views, vsnap, hpc, cver, hout, atStart,
                   lastEmit, writes, sidx, hidx>>
    /\ HotFrame

\* the collecting future is dropped (its task ends or is aborted), and its
\* Receiver with it
collect_dropped ==
    /\ hpc = "waiting"
    /\ hpc' = "stopped"
    /\ rxcount' = rxcount - 1
    /\ UNCHANGED <<sval, sver, vstate, views, vsnap, cver, hout, atStart,
                   lastEmit, writes, sidx, hidx>>
    /\ HotFrame

StateFlowNext ==
    \/ \E value \in Values : StateFlow_emit(value)
    \/ StateFlow_as_flow
    \/ as_flow_collect
    \/ as_flow_changed
    \/ as_flow_dropped
    \/ collect_dropped

StateFlowSpec == StateFlowInit /\ [][StateFlowNext]_vars

\* C19: after emit(v) or set(v) has returned, get() returns v (until the
\* next emit or set), whether or not a view or collection of the StateFlow
\* exists.
C19_EmitAlwaysStores == lastEmit # 0 => StateFlow_get = lastEmit

\* C20: the first value a collection of as_flow() receives is the value
\* the StateFlow held when the collection started.
C20_FirstValueIsCurrent == hpc # "none" => (hout # <<>> /\ hout[1] = atStart)

\* C20 witness: a collection started after a value was written between the
\* as_flow() call and its start, and nothing was written after it started
C20_Witness ==
    /\ hpc = "waiting"
    /\ atStart # vsnap
    /\ sval = atStart
    /\ hout = <<atStart>>

\* C21: a collection never receives a value written before one it already
\* received, and a collection that is still draining and whose latest
\* value is not the value of the latest emit/set call has a further value
\* to receive.
C21_SubscriberReachesLastWrite ==
    /\ \A i \in 1..Len(hidx) : \A j \in 1..Len(hidx) :
          i < j => hidx[i] < hidx[j]
    /\ (hpc = "waiting" /\ writes > 0 /\ hout[Len(hout)] # lastEmit)
          => ENABLED as_flow_changed

(***************************************************************************)
(* Part V.  SharedFlow (hot_flow.rs): a tokio broadcast channel of which   *)
(* the SharedFlow keeps the Sender only.  The k-th emit call emits the     *)
(* value k.                                                                *)
(***************************************************************************)

SharedFrame == UNCHANGED <<jobVars, takeVars, opVars, hotVars, seqVars, manyVars>>

RECURSIVE PowerOfTwoFrom(_, _)
\* the least p * 2^i that is at least n
PowerOfTwoFrom(p, n) == IF p >= n THEN p ELSE PowerOfTwoFrom(2 * p, n)

\* broadcast::channel(capacity): the ring buffer has
\* capacity.next_power_of_two() slots
broadcast_channel(capacity) == PowerOfTwoFrom(1, capacity)

\* the Receivers alive: the one in the Flow of as_flow() and the one of its
\* running collection
receiver_count ==
    (IF bview = "live" THEN 1 ELSE 0) + (IF bpc = "running" THEN 1 ELSE 0)

\* SharedFlow::new(capacity): "let (tx, _) = broadcast::channel(capacity)",
\* the Receiver of the pair is dropped at once
SharedFlowInit ==
    /\ JobIdle
    /\ ManyIdle
    /\ TakeIdle
    /\ OpIdle
    /\ HotIdle
    /\ SeqIdle
    /\ \E capacity \in 1..MaxCap : bcap = broadcast_channel(capacity)
    /\ bsent = 0
    /\ blog = <<>>
    /\ bclosed = FALSE
    /\ bview = "none"
    /\ bviewpos = 0
    /\ bpc = "none"
    /\ bpos = 0
    /\ bstart = 0
    /\ bout = <<>>

\* SharedFlow::emit(value): "let _ = self.tx.send(value)"; send returns at
\* once, with Err and nothing kept when no Receiver is alive, otherwise the
\* value goes into the ring buffer
SharedFlow_emit ==
    /\ ~bclosed
    /\ bsent < MaxSends
    /\ bsent' = bsent + 1
    /\ blog' = IF receiver_count = 0 THEN blog ELSE Append(blog, bsent + 1)
    /\ UNCHANGED <<bcap, bclosed, bview, bviewpos, bpc, bpos, bstart, bout>>
    /\ SharedFrame

\* SharedFlow::as_flow(): "let rx = self.tx.subscribe()" moves into the
\* Flow; a new Receiver stands at the tail of the channel
SharedFlow_as_flow ==
    /\ ~bclosed
    /\ bview = "none"
    /\ bview' = "live"
    /\ bviewpos' = Len(blog)
    /\ UNCHANGED <<bcap, bsent, blog, bclosed, bpc, bpos, bstart, bout>>
    /\ SharedFrame

\* a collection that starts where the Receiver of the Flow stands
Receiver_clone(position, tail) == position

\* Receiver::resubscribe: the new Receiver stands at the tail of the
\* channel, whatever the position of the one it is made from
Receiver_resubscribe(position, tail) == tail

\* Flow::collect on the Flow of as_flow(), for the first time or again:
\* "let mut rx = rx.resubscribe()"
shared_collect ==
    /\ bview = "live"
    /\ bpc # "running"
    /\ bpc' = "running"
    /\ bpos' = Receiver_resubscribe(bviewpos, Len(blog))
    /\ bstart' = bsent
    /\ bout' = <<>>
    /\ UNCHANGED <<bcap, bsent, blog, bclosed, bview, bviewpos>>
    /\ SharedFrame

\* the Receiver is more than a buffer's length behind: its next value was
\* overwritten and recv returns Err(Lagged)
Lagged(position) == Len(blog) - position > bcap

\* "while let Ok(value) = rx.recv().await { collector.emit(value).await }",
\* one turn
shared_recv ==
    /\ bpc = "running"
    /\ bpos < Len(blog)
    /\ ~Lagged(bpos)
    /\ bout' = Append(bout, blog[bpos + 1])
    /\ bpos' = bpos + 1
    /\ UNCHANGED <<bcap, bsent, blog, bclosed, bview, bviewpos, bpc, bstart>>
    /\ SharedFrame

\* rx.recv() returns Err, Lagged or (the Sender dropped and nothing left)
\* Closed: the loop ends and the collect returns
shared_recv_err ==
    /\ bpc = "running"
    /\ Lagged(bpos) \/ (bclosed /\ bpos = Len(blog))
    /\ bpc' = "ended"
    /\ UNCHANGED <<bcap, bsent, blog, bclosed, bview, bviewpos, bpos, bstart,
                   bout>>
    /\ SharedFrame

\* the SharedFlow is dropped
SharedFlow_dropped ==
    /\ ~bclosed
    /\ bclosed' = TRUE
    /\ UNCHANGED <<bcap, bsent, blog, bview, bviewpos, bpc, bpos, bstart,
                   bout>>
    /\ SharedFrame

\* the Flow of as_flow() is dropped, and its Receiver with it
shared_view_dropped ==
    /\ bview = "live"
    /\ bview' = "dropped"
    /\ UNCHANGED <<bcap, bsent, blog, bclosed, bviewpos, bpc, bpos, bstart,
                   bout>>
    /\ SharedFrame

\* the collecting future is dropped, and its Receiver with it
shared_collect_dropped ==
    /\ bpc = "running"
    /\ bpc' = "dropped"
    /\ UNCHANGED <<bcap, bsent, blog, bclosed, bview, bviewpos, bpos, bstart,
                   bout>>
    /\ SharedFrame

SharedFlowNext ==
    \/ SharedFlow_emit
    \/ SharedFlow_as_flow
    \/ shared_collect
    \/ shared_recv
    \/ shared_recv_err
    \/ SharedFlow_dropped
    \/ shared_view_dropped
    \/ shared_collect_dropped

SharedFlowSpec == SharedFlowInit /\ [][SharedFlowNext]_vars

\* C22: emit on a live SharedFlow can always be done at once; a collection
\* of as_flow() holds only values emitted after it started (so none emitted
\* while no collection was running), in emission order.
C22_SharedDeliversOnlyLater ==
    /\ (~bclosed /\ bsent < MaxSends) => ENABLED SharedFlow_emit
    /\ \A i \in 1..Len(bout) : bout[i] > bstart
    /\ \A i \in 1..Len(bout) : \A j \in 1..Len(bout) :
          i < j => bout[i] < bout[j]

\* C22 witness: a collection that started after a value was emitted to the
\* Flow of as_flow() alone, and received the two values emitted since
C22_Witness ==
    /\ bpc = "running"
    /\ bstart > 0
    /\ Len(blog) > 0 /\ blog[1] <= bstart
    /\ bout = <<bstart + 1, bstart + 2>>

\* C40: a collection of as_flow() that has fallen behind by more than the
\* buffer's length is not ended by that: a running collection ends only
\* when the SharedFlow has been dropped.
C40_LagDoesNotEndCollection ==
    [][(bpc = "running" /\ bpc' = "ended") => bclosed]_vars

(***************************************************************************)
(* Part VI.  Operators and terminal consumers that handle the upstream's   *)
(* values one after the other in the collecting future itself              *)
(* (terminal.rs, operators.rs, lifecycle.rs).                              *)
(***************************************************************************)

SeqFrame == UNCHANGED <<jobVars, takeVars, opVars, hotVars, sharedVars, manyVars>>

\* what a collect is started with
qInputs == <<qop, qin, qendless, qfails, qdpanic, qpayload, qarg>>

\* the k-th value the upstream emits
UpValue(k) == qin[((k - 1) % Len(qin)) + 1]

\* the upstream has a further value to emit
HasNext == IF qendless THEN qpos < MaxEmits ELSE qpos < Len(qin)

\* the upstream has emitted all its values and completes: upstream.collect
\* returns
Completes == ~qendless /\ qpos = Len(qin)

\* Option::ok_or(FlowError::Empty)
ok_or_Empty(cell) == IF cell = 0 THEN <<"Empty", 0>> ELSE <<"Ok", cell>>

\* first's closure: "if !found.swap(true) { *result = Some(value) }"
first_on_value ==
    /\ qop = "first"
    /\ qpc = "collecting"
    /\ HasNext
    /\ qpos' = qpos + 1
    /\ qcell' = IF ~qflag THEN UpValue(qpos + 1) ELSE qcell
    /\ qflag' = TRUE
    /\ UNCHANGED <<qInputs, qinner, qout, qcount, qpc, qres, qevals, qcalls>>
    /\ SeqFrame

\* first, after "self.collect(..).await" returned
first_finish ==
    /\ qop = "first"
    /\ qpc = "collecting"
    /\ Completes
    /\ qres' = ok_or_Empty(qcell)
    /\ qpc' = "done"
    /\ UNCHANGED <<qInputs, qpos, qinner, qout, qcell, qcount, qflag, qevals,
                   qcalls>>
    /\ SeqFrame

\* single's closure: "let prev = count.fetch_add(1); if prev == 0 {..}"
single_on_value ==
    /\ qop = "single"
    /\ qpc = "collecting"
    /\ HasNext
    /\ qpos' = qpos + 1
    /\ qcount' = qcount + 1
    /\ qcell' = IF qcount = 0 THEN UpValue(qpos + 1) ELSE qcell
    /\ UNCHANGED <<qInputs, qinner, qout, qflag, qpc, qres, qevals, qcalls>>
    /\ SeqFrame

\* a single that settles for the first of several values
single_result_lenient(final_count, cell) ==
    IF final_count = 0 THEN <<"Empty", 0>> ELSE ok_or_Empty(cell)

\* single's result from final_count and the captured value
single_result(final_count, cell) ==
    IF final_count = 0 THEN <<"Empty", 0>>
    ELSE IF final_count > 1 THEN <<"MoreThanOneElement", 0>>
    ELSE ok_or_Empty(cell)

\* single, after "self.collect(..).await" returned
single_finish ==
    /\ qop = "single"
    /\ qpc = "collecting"
    /\ Completes
    /\ qres' = single_result(qcount, qcell)
    /\ qpc' = "done"
    /\ UNCHANGED <<qInputs, qpos, qinner, qout, qcell, qcount, qflag, qevals,
                   qcalls>>
    /\ SeqFrame

\* the function given to reduce, here the sum of the tests
reduce_f(acc, value) == acc + value

\* reduce's closure: the first value becomes acc, later ones are folded in
reduce_on_value ==
    /\ qop = "reduce"
    /\ qpc = "collecting"
    /\ HasNext
    /\ qpos' = qpos + 1
    /\ qcell' = IF qcell = 0 THEN UpValue(qpos + 1)
                ELSE reduce_f(qcell, UpValue(qpos + 1))
    /\ UNCHANGED <<qInputs, qinner, qout, qcount, qflag, qpc, qres, qevals,
                   qcalls>>
    /\ SeqFrame

\* reduce, after "self.collect(..).await" returned
reduce_finish ==
    /\ qop = "reduce"
    /\ qpc = "collecting"
    /\ Completes
    /\ qres' = ok_or_Empty(qcell)
    /\ qpc' = "done"
    /\ UNCHANGED <<qInputs, qpos, qinner, qout, qcell, qcount, qflag, qevals,
                   qcalls>>
    /\ SeqFrame

\* first(), single() or reduce(f) called on a flow that emits up to MaxLen
\* values and completes, or emits its values over and over
TerminalInit ==
    /\ JobIdle
    /\ ManyIdle
    /\ TakeIdle
    /\ OpIdle
    /\ HotIdle
    /\ SharedIdle
    /\ qop \in {"first", "single", "reduce"}
    /\ qin \in SeqsUpTo(MaxLen)
    /\ qendless \in BOOLEAN
    /\ qendless => qin # <<>>
    /\ qfails = 0
    /\ qdpanic = 0
    /\ qpayload = "none"
    /\ qarg = 0
    /\ qpos = 0
    /\ qinner = 0
    /\ qout = <<>>
    /\ qcell = 0
    /\ qcount = 0
    /\ qflag = FALSE
    /\ qpc = "collecting"
    /\ qres = <<"none", 0>>
    /\ qevals = 0
    /\ qcalls = 0

TerminalNext ==
    \/ first_on_value
    \/ first_finish
    \/ single_on_value
    \/ single_finish
    \/ reduce_on_value
    \/ reduce_finish

TerminalSpec == TerminalInit /\ [][TerminalNext]_vars

\* C23: single() returns Ok(v) for a stream of exactly the value v, Empty
\* for an empty stream and MoreThanOneElement for two or more values;
\* first() and reduce() return Empty for an empty stream; none of them
\* panics.
C23_TerminalErrors ==
    /\ qop \in {"first", "single", "reduce"} => qpc # "panicked"
    /\ (qop = "single" /\ qpc = "done") =>
          /\ Len(qin) = 0 => qres = <<"Empty", 0>>
          /\ Len(qin) = 1 => qres = <<"Ok", qin[1]>>
          /\ Len(qin) > 1 => qres = <<"MoreThanOneElement", 0>>
    /\ (qop \in {"first", "reduce"} /\ qpc = "done" /\ Len(qin) = 0)
          => qres = <<"Empty", 0>>

\* C23 witness: single() has returned on a stream of two values
C23_Witness ==
    /\ qop = "single"
    /\ qpc = "done"
    /\ Len(qin) = 2
    /\ qres = <<"MoreThanOneElement", 0>>

\* C24: once first() has captured a value it takes no further value from
\* the upstream: its next step is to return.
C24_FirstStopsAfterCapture ==
    [][(qop = "first" /\ qpc = "collecting" /\ qflag)
          => (qpos' = qpos /\ qpc' = "done")]_vars

(***************************************************************************)
(* distinct_until_changed (operators.rs)                                   *)
(***************************************************************************)

\* the upstream of an operator has completed, and so does the operator's
\* collect, which has nothing to do after "upstream.collect(..).await"
seq_upstream_done ==
    /\ qop \in {"distinct_until_changed", "take_while", "flat_map"}
    /\ qpc = "collecting"
    /\ Completes
    /\ qpc' = "done"
    /\ UNCHANGED <<qInputs, qpos, qinner, qout, qcell, qcount, qflag, qres,
                   qevals, qcalls>>
    /\ SeqFrame

\* a test that lets every value through
distinct_should_emit_always(last, value) == TRUE

\* "match &*guard { None => true, Some(prev) => prev != &value }"
distinct_should_emit(last, value) == last = 0 \/ last # value

\* the closure of distinct_until_changed: a value that should be emitted
\* becomes the new last and goes downstream
distinct_on_value ==
    /\ qop = "distinct_until_changed"
    /\ qpc = "collecting"
    /\ HasNext
    /\ qpos' = qpos + 1
    /\ IF distinct_should_emit(qcell, UpValue(qpos + 1))
          THEN /\ qcell' = UpValue(qpos + 1)
               /\ qout' = Append(qout, UpValue(qpos + 1))
          ELSE UNCHANGED <<qcell, qout>>
    /\ UNCHANGED <<qInputs, qinner, qcount, qflag, qpc, qres, qevals, qcalls>>
    /\ SeqFrame

RECURSIVE KeySeqsUpTo(_)
\* the sequences over 1..NumKeys of length at most n
KeySeqsUpTo(n) ==
    IF n = 0 THEN {<<>>}
    ELSE LET shorter == KeySeqsUpTo(n - 1)
         IN shorter \cup {Append(q, v) : q \in {r \in shorter : Len(r) = n - 1},
                                          v \in 1..NumKeys}

\* Flow::collect on upstream.distinct_until_changed()
DistinctInit ==
    /\ JobIdle
    /\ ManyIdle
    /\ TakeIdle
    /\ OpIdle
    /\ HotIdle
    /\ SharedIdle
    /\ qop = "distinct_until_changed"
    /\ qin \in KeySeqsUpTo(MaxRunLen)
    /\ qendless = FALSE
    /\ qfails = 0
    /\ qdpanic = 0
    /\ qpayload = "none"
    /\ qarg = 0
    /\ qpos = 0
    /\ qinner = 0
    /\ qout = <<>>
    /\ qcell = 0
    /\ qcount = 0
    /\ qflag = FALSE
    /\ qpc = "collecting"
    /\ qres = <<"none", 0>>
    /\ qevals = 0
    /\ qcalls = 0

DistinctNext ==
    \/ distinct_on_value
    \/ seq_upstream_done

DistinctSpec == DistinctInit /\ [][DistinctNext]_vars

RECURSIVE WithoutRepeats(_)
\* q with every value dropped that equals the value kept before it
WithoutRepeats(q) ==
    IF Len(q) <= 1 THEN q
    ELSE LET kept == WithoutRepeats(SubSeq(q, 1, Len(q) - 1))
         IN IF kept[Len(kept)] = q[Len(q)] THEN kept
            ELSE Append(kept, q[Len(q)])

\* C25: the output of distinct_until_changed is its input with exactly the
\* values dropped that equal the value forwarded before them; it never
\* holds two equal values next to each other.
C25_DistinctUntilChanged ==
    qop = "distinct_until_changed" =>
       /\ qout = WithoutRepeats(SubSeq(qin, 1, qpos))
       /\ \A i \in 1..(Len(qout) - 1) : qout[i] # qout[i + 1]

\* C25 witness: [1,1,2,2,3,1,1] has been collected and gave [1,2,3,1]
C25_Witness ==
    /\ qop = "distinct_until_changed"
    /\ qpc = "done"
    /\ qin = <<1, 1, 2, 2, 3, 1, 1>>
    /\ qout = <<1, 2, 3, 1>>

(***************************************************************************)
(* take_while (operators.rs)                                               *)
(***************************************************************************)

\* the predicate given to take_while, here "the value is not qarg"
take_while_predicate(value) == value # qarg

\* a test that asks the predicate alone
take_while_passes_unlatched(done, holds) == holds

\* "!done.load(Ordering::SeqCst) && predicate(&value)"
take_while_passes(done, holds) == ~done /\ holds

\* the closure of take_while; && calls the predicate only when done is
\* false; a value that does not pass stores done = true
take_while_on_value ==
    /\ qop = "take_while"
    /\ qpc = "collecting"
    /\ HasNext
    /\ qpos' = qpos + 1
    /\ qevals' = IF qflag THEN qevals ELSE qevals + 1
    /\ IF take_while_passes(qflag, take_while_predicate(UpValue(qpos + 1)))
          THEN /\ qout' = Append(qout, UpValue(qpos + 1))
               /\ qflag' = qflag
          ELSE /\ qout' = qout
               /\ qflag' = TRUE
    /\ UNCHANGED <<qInputs, qinner, qcell, qcount, qpc, qres, qcalls>>
    /\ SeqFrame

\* Flow::collect on upstream.take_while(predicate)
TakeWhileInit ==
    /\ JobIdle
    /\ ManyIdle
    /\ TakeIdle
    /\ OpIdle
    /\ HotIdle
    /\ SharedIdle
    /\ qop = "take_while"
    /\ qin \in SeqsUpTo(MaxLen)
    /\ qendless = FALSE
    /\ qfails = 0
    /\ qdpanic = 0
    /\ qpayload = "none"
    /\ qarg \in Values
    /\ qpos = 0
    /\ qinner = 0
    /\ qout = <<>>
    /\ qcell = 0
    /\ qcount = 0
    /\ qflag = FALSE
    /\ qpc = "collecting"
    /\ qres = <<"none", 0>>
    /\ qevals = 0
    /\ qcalls = 0

TakeWhileNext ==
    \/ take_while_on_value
    \/ seq_upstream_done

TakeWhileSpec == TakeWhileInit /\ [][TakeWhileNext]_vars

\* C26: once the predicate of take_while has returned false, no later
\* value is forwarded and the predicate is not called again.
C26_TakeWhileLatches ==
    [][(qop = "take_while" /\ qflag)
          => (qout' = qout /\ qevals' = qevals)]_vars

\* C26 witness: a collect has ended in which a value that the predicate
\* accepts came after the one it rejected, and was not forwarded
C26_Witness ==
    /\ qop = "take_while"
    /\ qpc = "done"
    /\ qflag
    /\ Len(qin) >= Len(qout) + 2
    /\ take_while_predicate(qin[Len(qout) + 2])
    /\ qevals = Len(qout) + 1

(***************************************************************************)
(* flat_map (operators.rs).  The downstream value <<k, j>> is the j-th     *)
(* value of the inner flow made from the k-th upstream value.              *)
(***************************************************************************)

\* the function given to flat_map, here "a flow of as many values as the
\* value says"
flat_map_f_len(value) == value

\* the closure of flat_map starts: "let inner_flow = f(value).await"
flat_map_on_value ==
    /\ qop = "flat_map"
    /\ qpc = "collecting"
    /\ HasNext
    /\ qpos' = qpos + 1
    /\ qinner' = 0
    /\ qpc' = "inner"
    /\ UNCHANGED <<qInputs, qout, qcell, qcount, qflag, qres, qevals, qcalls>>
    /\ SeqFrame

\* an inner flow that is left after its first value
inner_flow_exhausted_early(taken, len) == taken = len \/ taken >= 1

\* the inner flow has emitted all its values
inner_flow_exhausted(taken, len) == taken = len

\* the inner flow emits its next value: "collector.emit(inner_value).await"
flat_map_inner_emit ==
    /\ qop = "flat_map"
    /\ qpc = "inner"
    /\ ~inner_flow_exhausted(qinner, flat_map_f_len(UpValue(qpos)))
    /\ qout' = Append(qout, <<qpos, qinner + 1>>)
    /\ qinner' = qinner + 1
    /\ UNCHANGED <<qInputs, qpos, qcell, qcount, qflag, qpc, qres, qevals,
                   qcalls>>
    /\ SeqFrame

\* "inner_flow.collect(..).await" returns and so does the closure: the
\* upstream may go on
flat_map_inner_done ==
    /\ qop = "flat_map"
    /\ qpc = "inner"
    /\ inner_flow_exhausted(qinner, flat_map_f_len(UpValue(qpos)))
    /\ qpc' = "collecting"
    /\ UNCHANGED <<qInputs, qpos, qinner, qout, qcell, qcount, qflag, qres,
                   qevals, qcalls>>
    /\ SeqFrame

\* Flow::collect on upstream.flat_map(f)
FlatMapInit ==
    /\ JobIdle
    /\ ManyIdle
    /\ TakeIdle
    /\ OpIdle
    /\ HotIdle
    /\ SharedIdle
    /\ qop = "flat_map"
    /\ qin \in SeqsUpTo(MaxLen)
    /\ qendless = FALSE
    /\ qfails = 0
    /\ qdpanic = 0
    /\ qpayload = "none"
    /\ qarg = 0
    /\ qpos = 0
    /\ qinner = 0
    /\ qout = <<>>
    /\ qcell = 0
    /\ qcount = 0
    /\ qflag = FALSE
    /\ qpc = "collecting"
    /\ qres = <<"none", 0>>
    /\ qevals = 0
    /\ qcalls = 0

FlatMapNext ==
    \/ flat_map_on_value
    \/ flat_map_inner_emit
    \/ flat_map_inner_done
    \/ seq_upstream_done

FlatMapSpec == FlatMapInit /\ [][FlatMapNext]_vars

\* the first n values of the inner flow of the k-th upstream value
InnerPrefix(k, n) == [j \in 1..n |-> <<k, j>>]

RECURSIVE InnerConcat(_)
\* the inner flows of the first k upstream values, one after the other
InnerConcat(k) ==
    IF k = 0 THEN <<>>
    ELSE InnerConcat(k - 1) \o InnerPrefix(k, flat_map_f_len(UpValue(k)))

\* C27: what flat_map has delivered is the complete inner streams of the
\* upstream values handled before, in upstream order, followed by the
\* values taken so far from the inner stream of the current one.
C27_FlatMapConcatenates ==
    qop = "flat_map" =>
       qout = IF qpc = "inner"
                 THEN InnerConcat(qpos - 1) \o InnerPrefix(qpos, qinner)
                 ELSE InnerConcat(qpos)

\* C27 witness: a finished flat_map over three upstream values of which
\* the first two have inner streams of two values
C27_Witness ==
    /\ qop = "flat_map"
    /\ qpc = "done"
    /\ Len(qin) = 3
    /\ Len(qout) >= 5
    /\ qout[1] = <<1, 1>> /\ qout[2] = <<1, 2>>
    /\ qout[3] = <<2, 1>> /\ qout[4] = <<2, 2>>
    /\ qout[5] = <<3, 1>>

(***************************************************************************)
(* sample (combining.rs).  Source 1 is self, whose task stores each value  *)
(* in latest; source 2 is the sampler, whose task sends a () per value     *)
(* into the channel: <<2, i>> is the i-th tick.  The downstream value      *)
(* <<v, i>> is the v-th value of self, emitted for the i-th tick.          *)
(***************************************************************************)

\* self produces its next value and the closure stores it:
\* "*latest.lock().await = Some(value)"
sample_set ==
    /\ op = "sample"
    /\ tpc[1] = "running"
    /\ tendless[1] \/ tpos[1] < tlen[1]
    /\ tpos' = [tpos EXCEPT ![1] = @ + 1]
    /\ latest' = [latest EXCEPT ![1] = tpos[1] + 1]
    /\ UNCHANGED <<op, ilen, tlen, tendless, tpanics, tpc, chan, cap, held,
                   cpc, cout, due, outcome>>
    /\ OpFrame

\* "while let Some(()) = rx.recv().await": the consumer takes a tick
sample_recv ==
    /\ op = "sample"
    /\ cpc = "recv"
    /\ chan[1] # <<>>
    /\ held' = [held EXCEPT ![1] = Head(chan[1])[2]]
    /\ chan' = [chan EXCEPT ![1] = Tail(@)]
    /\ cpc' = "read"
    /\ UNCHANGED <<op, ilen, tlen, tendless, tpanics, tpos, tpc, cap, latest,
                   cout, due, outcome>>
    /\ OpFrame

\* a tick that emits whatever latest holds
sample_has_value_always(value) == TRUE

\* "if let Some(value) = latest.lock().await.clone()"
sample_has_value(value) == value # 0

\* the tick is processed: latest is read and, if it holds a value, that
\* value is emitted
sample_read ==
    /\ op = "sample"
    /\ cpc = "read"
    /\ cout' = IF sample_has_value(latest[1])
                  THEN Append(cout, <<latest[1], held[1]>>)
                  ELSE cout
    /\ held' = [held EXCEPT ![1] = 0]
    /\ cpc' = "recv"
    /\ UNCHANGED <<op, ilen, tlen, tendless, tpanics, tpos, tpc, chan, cap,
                   latest, due, outcome>>
    /\ OpFrame

\* Flow::collect on a.sample(sampler)
SampleInit ==
    /\ JobIdle
    /\ ManyIdle
    /\ TakeIdle
    /\ HotIdle
    /\ SharedIdle
    /\ SeqIdle
    /\ op = "sample"
    /\ tpc = [s \in Srcs |-> IF s \in Chans THEN "running" ELSE "none"]
    /\ tlen \in [Srcs -> 0..MaxOpLen]
    /\ \A s \in Srcs \ Chans : tlen[s] = 0
    /\ ilen = 0
    /\ tendless = [s \in Srcs |-> FALSE]
    /\ tpanics = [s \in Srcs |-> FALSE]
    /\ tpos = [s \in Srcs |-> 0]
    /\ chan = [c \in Chans |-> <<>>]
    /\ cap = ChannelCapacity
    /\ latest = [c \in Chans |-> 0]
    /\ held = [c \in Chans |-> 0]
    /\ cpc = "recv"
    /\ cout = <<>>
    /\ due = <<>>
    /\ outcome = "none"

SampleNext ==
    \/ sample_set
    \/ src_send(2)
    \/ \E s \in Chans : src_finish(s)
    \/ sample_recv
    \/ sample_read
    \/ op_recv_none
    \/ zip_join1
    \/ zip_join2

SampleSpec == SampleInit /\ [][SampleNext]_vars

\* C28: sample emits only while it processes a tick, one value at most,
\* which is the value self produced last before that moment; a tick
\* processed before self produced anything emits nothing.
C28_SampleEmitsLatestPerTick ==
    [][(op = "sample" /\ cout' # cout)
          => /\ cpc = "read"
             /\ tpos[1] > 0
             /\ cout' = Append(cout, <<tpos[1], held[1]>>)
             /\ \A i \in 1..Len(cout) : cout[i][2] < held[1]]_vars

\* C28 witness: self produced one value, and the first tick, processed
\* before it, gave nothing while the second gave that value
C28_Witness ==
    /\ op = "sample"
    /\ cpc = "done"
    /\ tlen[1] = 1 /\ tlen[2] = 2
    /\ cout = << <<1, 2>> >>

(***************************************************************************)
(* catch_panic (lifecycle.rs).  The downstream is given <<"upstream", k>>, *)
(* the k-th upstream value, and <<"handler", j>>, the j-th value the       *)
(* handler emits; qout holds what it was given, the value it panicked on   *)
(* included.                                                               *)
(***************************************************************************)

\* the downstream collector panics on the value it is given now
DownstreamPanics == qdpanic = Len(qout) + 1

\* the message made from the payload: a &str or a String payload gives its
\* text, anything else "Unknown panic"
panic_msg(payload) ==
    IF payload \in {"str", "String"} THEN "payload text" ELSE "Unknown panic"

\* the closure of catch_panic, "collector.emit(value).await", runs inside
\* the future given to catch_unwind: a panic of the downstream collector
\* unwinds into catch_unwind as a panic of the upstream does, and the
\* handler is called with its message
catch_on_value ==
    /\ qop = "catch_panic"
    /\ qpc = "collecting"
    /\ HasNext
    /\ qpos' = qpos + 1
    /\ qout' = Append(qout, <<"upstream", qpos + 1>>)
    /\ IF DownstreamPanics
          THEN /\ qpc' = "handler"
               /\ qcalls' = qcalls + 1
               /\ qres' = <<panic_msg("str"), 0>>
          ELSE UNCHANGED <<qpc, qcalls, qres>>
    /\ UNCHANGED <<qInputs, qinner, qcell, qcount, qflag, qevals>>
    /\ SeqFrame

\* the upstream panics after its values: catch_unwind returns Err(panic)
\* and "handler(collector, panic_msg)" is called
catch_upstream_panics ==
    /\ qop = "catch_panic"
    /\ qpc = "collecting"
    /\ qpos = Len(qin)
    /\ qfails > 0
    /\ qflag' = TRUE
    /\ qpc' = "handler"
    /\ qcalls' = qcalls + 1
    /\ qres' = <<panic_msg(qpayload), 0>>
    /\ UNCHANGED <<qInputs, qpos, qinner, qout, qcell, qcount, qevals>>
    /\ SeqFrame

\* the upstream completes: catch_unwind returns Ok(()) and the collect
\* returns
catch_upstream_done ==
    /\ qop = "catch_panic"
    /\ qpc = "collecting"
    /\ qpos = Len(qin)
    /\ qfails = 0
    /\ qpc' = "done"
    /\ UNCHANGED <<qInputs, qpos, qinner, qout, qcell, qcount, qflag, qres,
                   qevals, qcalls>>
    /\ SeqFrame

\* the handler emits its next value; nothing catches a panic of the
\* downstream collector here
catch_handler_emit ==
    /\ qop = "catch_panic"
    /\ qpc = "handler"
    /\ qinner < qarg
    /\ qinner' = qinner + 1
    /\ qout' = Append(qout, <<"handler", qinner + 1>>)
    /\ qpc' = IF DownstreamPanics THEN "panicked" ELSE "handler"
    /\ UNCHANGED <<qInputs, qpos, qcell, qcount, qflag, qres, qevals, qcalls>>
    /\ SeqFrame

\* "handler(collector, panic_msg).await" returns, and so does the collect
catch_handler_done ==
    /\ qop = "catch_panic"
    /\ qpc = "handler"
    /\ qinner = qarg
    /\ qpc' = "done"
    /\ UNCHANGED <<qInputs, qpos, qinner, qout, qcell, qcount, qflag, qres,
                   qevals, qcalls>>
    /\ SeqFrame

\* Flow::collect on upstream.catch_panic(handler)
CatchPanicInit ==
    /\ JobIdle
    /\ ManyIdle
    /\ TakeIdle
    /\ OpIdle
    /\ HotIdle
    /\ SharedIdle
    /\ qop = "catch_panic"
    /\ qin \in SeqsUpTo(MaxLen)
    /\ qendless = FALSE
    /\ qfails \in {0, 1}
    /\ qdpanic \in 0..(MaxLen + 1)
    /\ qpayload \in {"none", "str", "String", "other"}
    /\ qpayload = "none" <=> qfails = 0
    /\ qarg \in 0..MaxCount
    /\ qpos = 0
    /\ qinner = 0
    /\ qout = <<>>
    /\ qcell = 0
    /\ qcount = 0
    /\ qflag = FALSE
    /\ qpc = "collecting"
    /\ qres = <<"none", 0>>
    /\ qevals = 0
    /\ qcalls = 0

CatchPanicNext ==
    \/ catch_on_value
    \/ catch_upstream_panics
    \/ catch_upstream_done
    \/ catch_handler_emit
    \/ catch_handler_done

CatchPanicSpec == CatchPanicInit /\ [][CatchPanicNext]_vars

\* what the downstream of catch_panic is due when the upstream has emitted
\* its values and panicked: those values, then the handler's
CatchDue ==
    [k \in 1..Len(qin) |-> <<"upstream", k>>]
       \o [j \in 1..qarg |-> <<"handler", j>>]

\* C29: the handler of catch_panic is called at most once, and only when
\* the upstream has panicked, with the message of that panic; when the
\* collect has returned after a panic of the upstream, the downstream was
\* given the upstream's values and then the handler's.
C29_CatchPanicHandlesUpstreamOnly ==
    qop = "catch_panic" =>
       /\ qcalls <= 1
       /\ qcalls = 1 => (qflag /\ qres = <<panic_msg(qpayload), 0>>)
       /\ (qpc = "done" /\ qflag) => (qcalls = 1 /\ qout = CatchDue)

(***************************************************************************)
(* retry (lifecycle.rs).  The upstream panics, after its values, in its    *)
(* first qfails attempts; qarg is max_retries, qcount is attempts; the     *)
(* downstream is given the upstream's values themselves.                   *)
(***************************************************************************)

\* a guard that allows one retry too many
retry_guard_inclusive(attempts, max_retries) == attempts <= max_retries

\* "Err(_) if attempts < max_retries"
retry_guard(attempts, max_retries) == attempts < max_retries

\* the closure of retry, "collector.emit(value).await", inside the future
\* given to catch_unwind; a panic of the downstream collector ends the
\* attempt as a panic of the upstream does
retry_on_value ==
    /\ qop = "retry"
    /\ qpc = "collecting"
    /\ HasNext
    /\ qout' = Append(qout, UpValue(qpos + 1))
    /\ IF DownstreamPanics
          THEN /\ qcalls' = qcalls + 1
               /\ IF retry_guard(qcount, qarg)
                     THEN /\ qcount' = qcount + 1
                          /\ qpos' = 0
                          /\ qpc' = qpc
                     ELSE /\ qpc' = "panicked"
                          /\ UNCHANGED <<qcount, qpos>>
          ELSE /\ qpos' = qpos + 1
               /\ UNCHANGED <<qcalls, qcount, qpc>>
    /\ UNCHANGED <<qInputs, qinner, qcell, qflag, qres, qevals>>
    /\ SeqFrame

\* the attempt ends by a panic of the upstream: "attempts += 1; continue"
\* starts the upstream again, or resume_unwind re-raises the panic
retry_attempt_panics ==
    /\ qop = "retry"
    /\ qpc = "collecting"
    /\ qpos = Len(qin)
    /\ qcount < qfails
    /\ qcalls' = qcalls + 1
    /\ IF retry_guard(qcount, qarg)
          THEN /\ qcount' = qcount + 1
               /\ qpos' = 0
               /\ qpc' = qpc
          ELSE /\ qpc' = "panicked"
               /\ UNCHANGED <<qcount, qpos>>
    /\ UNCHANGED <<qInputs, qinner, qout, qcell, qflag, qres, qevals>>
    /\ SeqFrame

\* the attempt ends without a panic: "Ok(()) => break"
retry_attempt_succeeds ==
    /\ qop = "retry"
    /\ qpc = "collecting"
    /\ qpos = Len(qin)
    /\ qcount >= qfails
    /\ qpc' = "done"
    /\ UNCHANGED <<qInputs, qpos, qinner, qout, qcell, qcount, qflag, qres,
                   qevals, qcalls>>
    /\ SeqFrame

\* Flow::collect on upstream.retry(max_retries)
RetryInit ==
    /\ JobIdle
    /\ ManyIdle
    /\ TakeIdle
    /\ OpIdle
    /\ HotIdle
    /\ SharedIdle
    /\ qop = "retry"
    /\ qin \in SeqsUpTo(MaxLen)
    /\ qendless = FALSE
    /\ qfails \in 0..(MaxRetries + 2)
    /\ qdpanic \in 0..MaxLen
    /\ qpayload = IF qfails = 0 THEN "none" ELSE "str"
    /\ qarg \in 0..MaxRetries
    /\ qpos = 0
    /\ qinner = 0
    /\ qout = <<>>
    /\ qcell = 0
    /\ qcount = 0
    /\ qflag = FALSE
    /\ qpc = "collecting"
    /\ qres = <<"none", 0>>
    /\ qevals = 0
    /\ qcalls = 0

RetryNext ==
    \/ retry_on_value
    \/ retry_attempt_panics
    \/ retry_attempt_succeeds

RetrySpec == RetryInit /\ [][RetryNext]_vars

RECURSIVE Repeated(_, _)
\* q, n times over
Repeated(q, n) == IF n = 0 THEN <<>> ELSE q \o Repeated(q, n - 1)

\* C30: retry(max_retries) starts the upstream at most max_retries + 1
\* times; it returns normally when an attempt has ended without a panic,
\* every attempt before it having panicked, and it re-raises the panic
\* only when max_retries + 1 attempts have panicked; each attempt starts
\* the upstream from its first value.
C30_RetryBounded ==
    qop = "retry" =>
       /\ qcount + 1 <= qarg + 1
       /\ qpc = "done" => qcalls = qcount
       /\ qpc = "panicked" => (qcount = qarg /\ qcalls = qarg + 1)
       /\ qpc = "collecting" => qcalls = qcount
       /\ qdpanic = 0 =>
             qout = Repeated(qin, qcount) \o SubSeq(qin, 1, qpos)

\* C30 witness: retry(1) over an upstream that panics in its first attempt
\* only: the second attempt ends the collect, the values were sent twice
C30_Witness ==
    /\ qop = "retry"
    /\ qpc = "done"
    /\ qarg = 1 /\ qfails = 1 /\ qdpanic = 0
    /\ qcount = 1
    /\ Len(qin) = 2
    /\ qout = qin \o qin

(***************************************************************************)
(* with_timeout (lifecycle.rs).  The collect is one task: tokio::select!   *)
(* polls the upstream's collect and the Sleep each time the task is        *)
(* polled, in an order drawn at random.  qin is what the upstream does: a  *)
(* value is an emit, 0 an await that returns Pending (the upstream         *)
(* suspends there).  qflag is that the Sleep's deadline has passed; the    *)
(* select! sees it only when it polls the Sleep.  qpc is "pending" while   *)
(* the task is not being polled and "polling" while the upstream's future  *)
(* runs.                                                                   *)
(***************************************************************************)

RECURSIVE StepSeqsUpTo(_)
\* what an upstream of at most n steps does: emits (a value) and awaits (0)
StepSeqsUpTo(n) ==
    IF n = 0 THEN {<<>>}
    ELSE LET shorter == StepSeqsUpTo(n - 1)
         IN shorter \cup {Append(q, v) : q \in {r \in shorter : Len(r) = n - 1},
                                          v \in 0..NumValues}

\* the deadline of "tokio::time::sleep(duration)" passes; time goes on
\* while the upstream's future is being polled as well
sleep_deadline_passes ==
    /\ qop = "with_timeout"
    /\ qpc \in {"pending", "polling"}
    /\ ~qflag
    /\ qflag' = TRUE
    /\ UNCHANGED <<qInputs, qpos, qinner, qout, qcell, qcount, qpc, qres, qevals,
                   qcalls>>
    /\ SeqFrame

\* select! polls its first branch, the upstream's collect: first in its
\* random order, or after the Sleep returned Pending
select_polls_upstream ==
    /\ qop = "with_timeout"
    /\ qpc = "pending"
    /\ qpc' = "polling"
    /\ UNCHANGED <<qInputs, qpos, qinner, qout, qcell, qcount, qflag, qres, qevals,
                   qcalls>>
    /\ SeqFrame

\* the closure of with_timeout, "collector.emit(value).await"
with_timeout_on_value ==
    /\ qop = "with_timeout"
    /\ qpc = "polling"
    /\ HasNext
    /\ UpValue(qpos + 1) # 0
    /\ qpos' = qpos + 1
    /\ qout' = Append(qout, UpValue(qpos + 1))
    /\ UNCHANGED <<qInputs, qinner, qcell, qcount, qflag, qpc, qres, qevals,
                   qcalls>>
    /\ SeqFrame

\* an await of the upstream returns Pending: the first branch of select!
\* is Pending
upstream_suspends ==
    /\ qop = "with_timeout"
    /\ qpc = "polling"
    /\ HasNext
    /\ UpValue(qpos + 1) = 0
    /\ qpos' = qpos + 1
    /\ qpc' = "pending"
    /\ UNCHANGED <<qInputs, qinner, qout, qcell, qcount, qflag, qres, qevals,
                   qcalls>>
    /\ SeqFrame

\* upstream.collect returns: the first branch of select! completes, "=> {}"
with_timeout_upstream_done ==
    /\ qop = "with_timeout"
    /\ qpc = "polling"
    /\ Completes
    /\ qpc' = "done"
    /\ qres' = <<"completed", 0>>
    /\ UNCHANGED <<qInputs, qpos, qinner, qout, qcell, qcount, qflag, qevals,
                   qcalls>>
    /\ SeqFrame

\* select! polls the Sleep after its deadline: the second branch completes
\* and the upstream's future is dropped
with_timeout_fires ==
    /\ qop = "with_timeout"
    /\ qpc = "pending"
    /\ qflag
    /\ qpc' = "done"
    /\ qres' = <<"timed_out", 0>>
    /\ UNCHANGED <<qInputs, qpos, qinner, qout, qcell, qcount, qflag, qevals,
                   qcalls>>
    /\ SeqFrame

\* Flow::collect on upstream.with_timeout(duration)
WithTimeoutInit ==
    /\ JobIdle
    /\ ManyIdle
    /\ TakeIdle
    /\ OpIdle
    /\ HotIdle
    /\ SharedIdle
    /\ qop = "with_timeout"
    /\ qin \in StepSeqsUpTo(MaxLen)
    /\ qendless \in BOOLEAN
    /\ qendless => qin # <<>>
    /\ qfails = 0
    /\ qdpanic = 0
    /\ qpayload = "none"
    /\ qarg = 0
    /\ qpos = 0
    /\ qinner = 0
    /\ qout = <<>>
    /\ qcell = 0
    /\ qcount = 0
    /\ qflag = FALSE
    /\ qpc = "pending"
    /\ qres = <<"none", 0>>
    /\ qevals = 0
    /\ qcalls = 0

WithTimeoutNext ==
    \/ sleep_deadline_passes
    \/ select_polls_upstream
    \/ with_timeout_on_value
    \/ upstream_suspends
    \/ with_timeout_upstream_done
    \/ with_timeout_fires

WithTimeoutSpec == WithTimeoutInit /\ [][WithTimeoutNext]_vars

\* C31: once the timer of with_timeout has fired, no value reaches the
\* downstream any more, and the collect returns without an error.
C31_NoValueAfterTimerFired ==
    [][(qop = "with_timeout" /\ qflag) => qout' = qout]_vars

(***************************************************************************)
(* on_completion (lifecycle.rs).  The upstream emits qin and then          *)
(* completes, or panics when qfails = 1: a Flow has no other way to fail.  *)
(* qcalls counts the calls of the action, qres is the Option it was        *)
(* given, qarg the number of values the action emits (written 0 here).     *)
(***************************************************************************)

\* the closure of on_completion, "collector.emit(value).await"
on_completion_on_value ==
    /\ qop = "on_completion"
    /\ qpc = "collecting"
    /\ HasNext
    /\ qpos' = qpos + 1
    /\ qout' = Append(qout, UpValue(qpos + 1))
    /\ UNCHANGED <<qInputs, qinner, qcell, qcount, qflag, qpc, qres, qevals,
                   qcalls>>
    /\ SeqFrame

\* upstream.collect(..).await returned: "action(collector, None).await"
on_completion_upstream_done ==
    /\ qop = "on_completion"
    /\ qpc = "collecting"
    /\ Completes
    /\ qfails = 0
    /\ qcalls' = qcalls + 1
    /\ qres' = <<"None", 0>>
    /\ qpc' = "handler"
    /\ UNCHANGED <<qInputs, qpos, qinner, qout, qcell, qcount, qflag, qevals>>
    /\ SeqFrame

\* the upstream panics inside "upstream.collect(..).await": nothing
\* catches it, the panic leaves the collect of on_completion
on_completion_upstream_panics ==
    /\ qop = "on_completion"
    /\ qpc = "collecting"
    /\ Completes
    /\ qfails = 1
    /\ qflag' = TRUE
    /\ qpc' = "panicked"
    /\ UNCHANGED <<qInputs, qpos, qinner, qout, qcell, qcount, qres, qevals,
                   qcalls>>
    /\ SeqFrame

\* the action emits a value into the collector it was given
on_completion_action_emit ==
    /\ qop = "on_completion"
    /\ qpc = "handler"
    /\ qinner < qarg
    /\ qinner' = qinner + 1
    /\ qout' = Append(qout, 0)
    /\ UNCHANGED <<qInputs, qpos, qcell, qcount, qflag, qpc, qres, qevals,
                   qcalls>>
    /\ SeqFrame

\* the action's future completes, and with it the collect
on_completion_action_done ==
    /\ qop = "on_completion"
    /\ qpc = "handler"
    /\ qinner = qarg
    /\ qpc' = "done"
    /\ UNCHANGED <<qInputs, qpos, qinner, qout, qcell, qcount, qflag, qres,
                   qevals, qcalls>>
    /\ SeqFrame

\* Flow::collect on upstream.on_completion(action)
OnCompletionInit ==
    /\ JobIdle
    /\ ManyIdle
    /\ TakeIdle
    /\ OpIdle
    /\ HotIdle
    /\ SharedIdle
    /\ qop = "on_completion"
    /\ qin \in SeqsUpTo(MaxLen)
    /\ qendless = FALSE
    /\ qfails \in {0, 1}
    /\ qdpanic = 0
    /\ qpayload = IF qfails = 0 THEN "none" ELSE "str"
    /\ qarg \in 0..MaxCount
    /\ qpos = 0
    /\ qinner = 0
    /\ qout = <<>>
    /\ qcell = 0
    /\ qcount = 0
    /\ qflag = FALSE
    /\ qpc = "collecting"
    /\ qres = <<"none", 0>>
    /\ qevals = 0
    /\ qcalls = 0

OnCompletionNext ==
    \/ on_completion_on_value
    \/ on_completion_upstream_done
    \/ on_completion_upstream_panics
    \/ on_completion_action_emit
    \/ on_completion_action_done

OnCompletionSpec == OnCompletionInit /\ [][OnCompletionNext]_vars

\* C32: when the collect of on_completion has ended, the action has been
\* executed exactly once, after the last value of the upstream, with None
\* when the upstream completed and with Some(error) when it failed.
C32_CompletionActionOncePerCollect ==
    (qop = "on_completion" /\ qpc \in {"done", "panicked"}) =>
       /\ qcalls = 1
       /\ SubSeq(qout, 1, Len(qin)) = qin
       /\ qres[1] = IF qfails = 0 THEN "None" ELSE "Some"

(***************************************************************************)
(* Part VII.  Several collects of one Flow value, and several tasks        *)
(* emitting into one collector (flow.rs, operators.rs).                    *)
(*                                                                         *)
(* Flow::collect calls collect_fn, the closure given to Flow::new; the     *)
(* stateful operators make their state (emitted, dropped, done, last)      *)
(* inside the future that closure returns.  Task k is the k-th collect of  *)
(* the same Flow value; the collects run interleaved in any order, a       *)
(* second one after the first has ended included.                          *)
(***************************************************************************)

ManyFrame == UNCHANGED <<jobVars, takeVars, opVars, hotVars, sharedVars, seqVars>>

StatefulOps == {"take", "drop_first", "take_while", "distinct_until_changed"}

\* one state for all the collects of a Flow value
StateCell_shared(k) == 1

\* the state the closures of collect k work on: "let emitted =
\* Arc::new(..)" stands inside the async block, which runs once per collect
StateCell(k) == k

\* drop_first's closure, "if current >= count"
drop_first_forwards(current, limit) == current >= limit

\* Flow::collect: collect_fn(collector) makes the operator's state and
\* starts the upstream
many_collect(k) ==
    /\ mop \in StatefulOps
    /\ mpc[k] = "none"
    /\ mcell' = [mcell EXCEPT ![StateCell(k)] = 0]
    /\ mpc' = [mpc EXCEPT ![k] = "calling"]
    /\ UNCHANGED <<mop, msrc, marg, mseen, mpos, mout>>
    /\ ManyFrame

\* the upstream of collect k emits its next value into the operator's
\* closure: take, drop_first, take_while (predicate "the value is not
\* marg") or distinct_until_changed
many_on_value(k) ==
    /\ mop \in StatefulOps
    /\ mpc[k] = "calling"
    /\ mpos[k] < Len(msrc)
    /\ LET value == msrc[mpos[k] + 1]
           c == StateCell(k)
           state == mcell[c]
           forwards ==
              CASE mop = "take" -> take_forwards(state, marg)
                [] mop = "drop_first" -> drop_first_forwards(state, marg)
                [] mop = "take_while" ->
                      take_while_passes(state = 1, value # marg)
                [] mop = "distinct_until_changed" ->
                      distinct_should_emit(state, value)
           after ==
              CASE mop \in {"take", "drop_first"} -> state + 1
                [] mop = "take_while" -> IF forwards THEN state ELSE 1
                [] mop = "distinct_until_changed" ->
                      IF forwards THEN value ELSE state
       IN /\ mcell' = [mcell EXCEPT ![c] = after]
          /\ mseen' = [mseen EXCEPT ![k] = state]
          /\ mout' = IF forwards THEN [mout EXCEPT ![k] = Append(@, value)]
                     ELSE mout
    /\ mpos' = [mpos EXCEPT ![k] = @ + 1]
    /\ UNCHANGED <<mop, msrc, marg, mpc>>
    /\ ManyFrame

\* the upstream of collect k has emitted all its values: the collect
\* returns
many_upstream_done(k) ==
    /\ mop \in StatefulOps
    /\ mpc[k] = "calling"
    /\ mpos[k] = Len(msrc)
    /\ mpc' = [mpc EXCEPT ![k] = "done"]
    /\ UNCHANGED <<mop, msrc, marg, mcell, mseen, mpos, mout>>
    /\ ManyFrame

\* a Flow value built with a stateful operator over a finite upstream, on
\* which up to MaxTasks collects are called
ManyCollectsInit ==
    /\ JobIdle
    /\ TakeIdle
    /\ OpIdle
    /\ HotIdle
    /\ SharedIdle
    /\ SeqIdle
    /\ mop \in StatefulOps
    /\ msrc \in SeqsUpTo(MaxLen)
    /\ marg \in 0..MaxCount
    /\ mcell = [k \in Tasks |-> 0]
    /\ mseen = [k \in Tasks |-> 0]
    /\ mpos = [k \in Tasks |-> 0]
    /\ mout = [k \in Tasks |-> <<>>]
    /\ mpc = [k \in Tasks |-> "none"]

ManyCollectsNext ==
    \/ \E k \in Tasks : many_collect(k)
    \/ \E k \in Tasks : many_on_value(k)
    \/ \E k \in Tasks : many_upstream_done(k)

ManyCollectsSpec == ManyCollectsInit /\ [][ManyCollectsNext]_vars

\* the values before the first one equal to v
RECURSIVE UpToFirst(_, _)
UpToFirst(q, v) ==
    IF q = <<>> \/ q[1] = v THEN <<>>
    ELSE <<q[1]>> \o UpToFirst(Tail(q), v)

\* what a collect running alone delivers of the upstream values q
AloneDelivers(o, q, n) ==
    CASE o = "take" -> SubSeq(q, 1, Min(n, Len(q)))
      [] o = "drop_first" -> SubSeq(q, n + 1, Len(q))
      [] o = "take_while" -> UpToFirst(q, n)
      [] o = "distinct_until_changed" -> WithoutRepeats(q)

\* C33: each of several collects of one Flow value built with take,
\* drop_first, take_while or distinct_until_changed delivers what a collect
\* running alone delivers, at every point of every interleaving.
C33_CollectsAreIndependent ==
    \A k \in Tasks :
       mpc[k] \in {"calling", "done"} =>
          mout[k] = AloneDelivers(mop, SubSeq(msrc, 1, mpos[k]), marg)

\* C33 witness: take(1) over two values; the second collect has run from
\* start to end while the first stands between its two values, and both
\* have delivered the first value
C33_Witness ==
    /\ mop = "take" /\ marg = 1 /\ Len(msrc) = 2
    /\ mpc[1] = "calling" /\ mpos[1] = 1
    /\ mpc[2] = "done"
    /\ mout[1] = <<msrc[1]>>
    /\ mout[2] = <<msrc[1]>>

(***************************************************************************)
(* The collect of buffer or merge is dropped before its upstream is        *)
(* exhausted (operators.rs, combining.rs), as a downstream with_timeout    *)
(* does when its Sleep completes.  Dropping the collect future drops the   *)
(* Receiver and the JoinHandles; a dropped JoinHandle detaches its task,   *)
(* it does not abort it.  The values of a source that never ends are       *)
(* followed for MaxOpLen values while the collect lives, and are not       *)
(* counted after it was dropped.                                           *)
(***************************************************************************)

\* src_send while the collect lives
src_send_live(s) ==
    /\ cpc \in {"recv", "join"}
    /\ tendless[s] => tpos[s] < MaxOpLen
    /\ src_send(s)

\* the collect future is dropped at an await: the Receiver goes, and the
\* values still queued with it; the tasks run on
op_collect_dropped ==
    /\ op \in {"buffer", "merge"}
    /\ cpc \in {"recv", "join"}
    /\ cpc' = "dropped"
    /\ chan' = [c \in Chans |-> <<>>]
    /\ UNCHANGED <<op, ilen, tlen, tendless, tpanics, tpos, tpc, cap, latest, held,
                   cout, due, outcome>>
    /\ OpFrame

\* the source emits its next value into the closure of the task, which
\* calls tx.send(value)
src_emit_closed(s) ==
    /\ op \in {"buffer", "merge"}
    /\ cpc = "dropped"
    /\ tpc[s] = "running"
    /\ tendless[s] \/ tpos[s] < tlen[s]
    /\ tpc' = [tpc EXCEPT ![s] = "sending"]
    /\ tpos' = [tpos EXCEPT ![s] = IF tendless[s] THEN @ ELSE @ + 1]
    /\ UNCHANGED <<op, ilen, tlen, tendless, tpanics, chan, cap, latest, held, cpc,
                   cout, due, outcome>>
    /\ OpFrame

\* "let _ = tx.send(value).await" with the Receiver gone: send returns
\* Err(SendError) at once, the closure throws it away and returns, and the
\* source goes on
src_send_fails(s) ==
    /\ op \in {"buffer", "merge"}
    /\ cpc = "dropped"
    /\ tpc[s] = "sending"
    /\ tpc' = [tpc EXCEPT ![s] = "running"]
    /\ UNCHANGED <<op, ilen, tlen, tendless, tpanics, tpos, chan, cap, latest, held,
                   cpc, cout, due, outcome>>
    /\ OpFrame

\* Flow::collect on upstream.buffer(capacity) or on merge(flows), whose
\* sources may never end
DroppedInit ==
    /\ JobIdle
    /\ ManyIdle
    /\ TakeIdle
    /\ HotIdle
    /\ SharedIdle
    /\ SeqIdle
    /\ op \in {"buffer", "merge"}
    /\ \E n \in 1..(IF op = "buffer" THEN 1 ELSE MaxSrcs) :
          /\ tpc = [s \in Srcs |-> IF s <= n THEN "running" ELSE "none"]
          /\ tlen \in [Srcs -> 0..MaxOpLen]
          /\ tendless \in [Srcs -> BOOLEAN]
          /\ \A s \in Srcs : s > n => (tlen[s] = 0 /\ ~tendless[s])
          /\ \A s \in Srcs : tendless[s] => tlen[s] = 0
    /\ ilen = 0
    /\ tpanics = [s \in Srcs |-> FALSE]
    /\ tpos = [s \in Srcs |-> 0]
    /\ chan = [c \in Chans |-> <<>>]
    /\ cap \in IF op = "buffer" THEN 1..MaxCap ELSE {ChannelCapacity}
    /\ latest = [c \in Chans |-> 0]
    /\ held = [c \in Chans |-> 0]
    /\ cpc = "recv"
    /\ cout = <<>>
    /\ due = <<>>
    /\ outcome = "none"

DroppedNext ==
    \/ \E s \in Srcs : src_send_live(s)
    \/ \E s \in Srcs : src_finish(s)
    \/ op_recv
    \/ op_recv_none
    \/ op_join
    \/ op_collect_dropped
    \/ \E s \in Srcs : src_emit_closed(s)
    \/ \E s \in Srcs : src_send_fails(s)

\* the runtime goes on polling every spawned task that can run
DroppedFairness ==
    /\ \A s \in Srcs : WF_vars(src_emit_closed(s))
    /\ \A s \in Srcs : WF_vars(src_send_fails(s))
    /\ \A s \in Srcs : WF_vars(src_finish(s))

DroppedSpec == DroppedInit /\ [][DroppedNext]_vars /\ DroppedFairness

\* C34: once the collect of buffer or merge was dropped, every task it had
\* spawned eventually terminates, also a task whose source never ends.
C34_ProducersEndAfterDrop ==
    (cpc = "dropped") ~> (\A s \in Active : Finished(s))

(***************************************************************************)
(* merge, zip, combine and sample together (combining.rs): what their      *)
(* collect futures do with the tasks they spawned.                         *)
(***************************************************************************)

JoinAllInit == MergeInit \/ ZipInit \/ CombineInit \/ SampleInit

JoinAllNext ==
    \/ \E s \in Srcs : src_send(s)
    \/ \E s \in Srcs : src_finish(s)
    \/ op_recv
    \/ op_recv_none
    \/ op_join
    \/ zip_recv1
    \/ zip_recv2
    \/ zip_join1
    \/ zip_join2
    \/ \E s \in Chans : combine_set(s)
    \/ \E s \in Chans : combine_read(s)
    \/ \E s \in Chans : combine_send(s)
    \/ combine_recv
    \/ sample_set
    \/ sample_recv
    \/ sample_read

JoinAllSpec == JoinAllInit /\ [][JoinAllNext]_vars

\* C35: when the collect of merge, zip, combine or sample has returned,
\* every task it spawned has ended; none is still running.
C35_AllTasksJoined ==
    (op \in {"merge", "zip", "combine", "sample"} /\ cpc = "done") =>
       \A s \in Srcs : tpc[s] \in {"none", "done", "panicked"}

\* C35 witness: a combine of two sources with values has returned, after
\* emitting, both its tasks having ended
C35_Witness ==
    /\ op = "combine"
    /\ cpc = "done"
    /\ tlen[1] > 0 /\ tlen[2] > 0
    /\ cout # <<>>
    /\ tpc[1] = "done" /\ tpc[2] = "done"

(***************************************************************************)
(* Several tasks emitting into the collector of one take(count)            *)
(* (operators.rs): an upstream whose body hands clones of its collector    *)
(* to tasks.  Task k emits Len(msrc) values, each written k; all calls     *)
(* work on the one counter of the collect, mcell[1], and on the one        *)
(* downstream, mout[1].  A call of the closure is suspended, if at all,    *)
(* in "collector.emit(value).await", after its fetch_add.                  *)
(***************************************************************************)

\* a counter read when the closure starts and written back later
AtomicUsize_load_then_store(current, loaded) == loaded

\* "emitted.fetch_add(1, Ordering::SeqCst)" returns the value it replaces,
\* read and replaced in one step
AtomicUsize_fetch_add(current, loaded) == current

\* task k emits its next value: take's closure is called, and clones the
\* collector and the counter's Arc
emitter_calls(k) ==
    /\ mop = "take_shared"
    /\ mpc[k] = "calling"
    /\ mpos[k] < Len(msrc)
    /\ mseen' = [mseen EXCEPT ![k] = mcell[1]]
    /\ mpc' = [mpc EXCEPT ![k] = "called"]
    /\ UNCHANGED <<mop, msrc, marg, mcell, mpos, mout>>
    /\ ManyFrame

\* "let prev_emitted = emitted.fetch_add(1, Ordering::SeqCst)"
emitter_fetch_add(k) ==
    /\ mop = "take_shared"
    /\ mpc[k] = "called"
    /\ LET prev_emitted == AtomicUsize_fetch_add(mcell[1], mseen[k])
       IN /\ mcell' = [mcell EXCEPT ![1] = prev_emitted + 1]
          /\ mseen' = [mseen EXCEPT ![k] = prev_emitted]
    /\ mpc' = [mpc EXCEPT ![k] = "counted"]
    /\ UNCHANGED <<mop, msrc, marg, mpos, mout>>
    /\ ManyFrame

\* "if prev_emitted < count { collector.emit(value).await }", and the
\* closure returns
emitter_forward(k) ==
    /\ mop = "take_shared"
    /\ mpc[k] = "counted"
    /\ mout' = IF take_forwards(mseen[k], marg)
               THEN [mout EXCEPT ![1] = Append(@, k)]
               ELSE mout
    /\ mpos' = [mpos EXCEPT ![k] = @ + 1]
    /\ mpc' = [mpc EXCEPT ![k] = "calling"]
    /\ UNCHANGED <<mop, msrc, marg, mcell, mseen>>
    /\ ManyFrame

\* task k has emitted all its values
emitter_done(k) ==
    /\ mop = "take_shared"
    /\ mpc[k] = "calling"
    /\ mpos[k] = Len(msrc)
    /\ mpc' = [mpc EXCEPT ![k] = "done"]
    /\ UNCHANGED <<mop, msrc, marg, mcell, mseen, mpos, mout>>
    /\ ManyFrame

\* Flow::collect on upstream.take(count), the upstream having started its
\* MaxTasks emitting tasks: "emitted = AtomicUsize::new(0)"
SharedTakeInit ==
    /\ JobIdle
    /\ TakeIdle
    /\ OpIdle
    /\ HotIdle
    /\ SharedIdle
    /\ SeqIdle
    /\ mop = "take_shared"
    /\ \E n \in 0..MaxOpLen : msrc = [i \in 1..n |-> 1]
    /\ marg \in 0..MaxCount
    /\ mcell = [k \in Tasks |-> 0]
    /\ mseen = [k \in Tasks |-> 0]
    /\ mpos = [k \in Tasks |-> 0]
    /\ mout = [k \in Tasks |-> <<>>]
    /\ mpc = [k \in Tasks |-> "calling"]

SharedTakeNext ==
    \/ \E k \in Tasks : emitter_calls(k)
    \/ \E k \in Tasks : emitter_fetch_add(k)
    \/ \E k \in Tasks : emitter_forward(k)
    \/ \E k \in Tasks : emitter_done(k)

SharedTakeSpec == SharedTakeInit /\ [][SharedTakeNext]_vars

\* C38: whatever the interleaving of the tasks emitting into one
\* take(count), the downstream never holds more than count values, and it
\* holds min(count, number of values emitted) when all tasks have ended.
C38_TakeNeverOverEmits ==
    mop = "take_shared" =>
       /\ Len(mout[1]) <= marg
       /\ (\A k \in Tasks : mpc[k] = "done") =>
             Len(mout[1]) = Min(marg, MaxTasks * Len(msrc))

\* C38 witness: take(1); two tasks stand between their fetch_add and their
\* emit at the same time, one with prev_emitted = 0, the other with 1
C38_Witness ==
    /\ mop = "take_shared" /\ marg = 1
    /\ mpc[1] = "counted" /\ mpc[2] = "counted"
    /\ mseen[1] = 1 /\ mseen[2] = 0
    /\ mout[1] = <<>>

====
